---------------------------- MODULE Spec2Model ----------------------------
(***************************************************************************)
(* A model of the dailymotion/oplog agent: the capped operation log and    *)
(* the states collection written by OpLog.Append, the two last-id spaces   *)
(* (operation ids and replication timestamps), the SSE handler that turns  *)
(* a Last-Event-ID header into a last id, and the OpLog.Tail iterator that *)
(* replicates the states collection and then tails the capped log.         *)
(*                                                                         *)
(* Time is the wall clock in milliseconds.  A Mongo ObjectId is modelled   *)
(* by the fields that order it: the embedded unix second, the machine/pid  *)
(* bytes and the counter.                                                  *)
(***************************************************************************)
EXTENDS Integers, Sequences, FiniteSets, TLC

(***************************************************************************)
(* Bounds of the model.                                                    *)
(***************************************************************************)
\* number of half-second steps the clock may advance
MaxTicks == 1
\* number of operations the capped collection holds before evicting
CapSize == 2
\* OpLog.PageSize: the number of rows of a replication page (1000 in New, scaled
\* down to the number of objects of the model)
SmallPageSize == 2
\* number of events the sink receives before the model stops the tailer
MaxOut == 4
\* number of store read errors injected in one behaviour
MaxErrors == 1
\* number of datagrams the UDP reader receives in one behaviour
MaxDgrams == 4
\* queueMaxSize: the capacity of the ingest queue
QueueMaxSize == 2
\* number of failed store writes of the appender in one behaviour
MaxWriteErrors == 1
\* number of in-process producers that build an operation with NewOperation and
\* hand it to Ingest, and of concurrent callers of Append (in-process or POST
\* /ops): one operation each
NumCallers == 2
\* connection errors the consumer meets
MaxConnErrors == 1
\* events the application receives from the consumer in one behaviour
MaxEvents == 4
\* failed writes of the consumer's state file in one behaviour
MaxFileErrors == 1
MaxSetLastId == 1

(***************************************************************************)
(* Strings are sequences of one-character strings.                         *)
(***************************************************************************)
Digits == <<"0", "1", "2", "3", "4", "5", "6", "7", "8", "9">>

HexDigits == <<"0", "1", "2", "3", "4", "5", "6", "7", "8", "9",
               "a", "b", "c", "d", "e", "f">>

UpperHexDigits == <<"0", "1", "2", "3", "4", "5", "6", "7", "8", "9",
                    "A", "B", "C", "D", "E", "F">>

Range(s) == {s[i] : i \in DOMAIN s}

IsDigit(ch) == ch \in Range(Digits)

IsHexDigit(ch) == ch \in Range(HexDigits) \cup Range(UpperHexDigits)

DigitVal(ch) == (CHOOSE i \in DOMAIN Digits : Digits[i] = ch) - 1

HexDigitVal(ch) ==
    IF ch \in Range(HexDigits)
    THEN (CHOOSE i \in DOMAIN HexDigits : HexDigits[i] = ch) - 1
    ELSE (CHOOSE i \in DOMAIN UpperHexDigits : UpperHexDigits[i] = ch) - 1

\* the value of a string of decimal digits
DecVal(s) ==
    LET F[i \in 0..Len(s)] ==
          IF i = 0 THEN 0 ELSE 10 * F[i - 1] + DigitVal(s[i])
    IN  F[Len(s)]

\* the value of a string of hexadecimal digits
HexVal(s) ==
    LET F[i \in 0..Len(s)] ==
          IF i = 0 THEN 0 ELSE 16 * F[i - 1] + HexDigitVal(s[i])
    IN  F[Len(s)]

\* n written with exactly w lowercase hex digits
ToHex(n, w) ==
    LET Q[i \in 0..w] == IF i = 0 THEN n ELSE Q[i - 1] \div 16
    IN  [i \in 1..w |-> HexDigits[(Q[w - i] % 16) + 1]]

\* n >= 0 written in decimal
DecDigits(n) ==
    LET F[m \in 0..n] ==
          IF m < 10 THEN <<Digits[m + 1]>>
          ELSE Append(F[m \div 10], Digits[(m % 10) + 1])
    IN  F[n]

\* strconv.FormatInt(n, 10)
FormatInt(n) == IF n < 0 THEN <<"-">> \o DecDigits(0 - n) ELSE DecDigits(n)

\* strconv.ParseInt(s, 10, 64) succeeds: an optional sign, then digits
ParseIntOk(s) ==
    LET body == IF s # <<>> /\ s[1] \in {"+", "-"} THEN Tail(s) ELSE s
    IN  body # <<>> /\ \A i \in DOMAIN body : IsDigit(body[i])

ParseInt(s) ==
    IF s[1] = "-" THEN 0 - DecVal(Tail(s))
    ELSE IF s[1] = "+" THEN DecVal(Tail(s))
    ELSE DecVal(s)

(***************************************************************************)
(* Last ids (lastid: LastId, OperationLastId, ReplicationLastId).          *)
(***************************************************************************)
\* the nil LastId interface value
NilId == [kind |-> "nil"]

\* an *OperationLastId that is a nil pointer
OpNilId == [kind |-> "opnil"]

OperationLastId(oid) == [kind |-> "op", ObjectId |-> oid]

ReplicationLastId(ms, fb) == [kind |-> "repl", int64 |-> ms, fallbackMode |-> fb]

GenericLastEventId(s) == [kind |-> "generic", string |-> s]

\* a bson.ObjectId: 4 bytes of unix seconds, 5 bytes machine and pid, 3 bytes counter
ObjectId(sec, mid, ctr) == [sec |-> sec, mid |-> mid, ctr |-> ctr]

\* bson.ObjectId.Hex
Hex(oid) == ToHex(oid.sec, 8) \o ToHex(oid.mid, 10) \o ToHex(oid.ctr, 6)

\* bson.IsObjectIdHex
IsObjectIdHex(s) == Len(s) = 24 /\ \A i \in DOMAIN s : IsHexDigit(s[i])

\* bson.ObjectIdHex
ObjectIdHex(s) ==
    ObjectId(HexVal(SubSeq(s, 1, 8)), HexVal(SubSeq(s, 9, 18)), HexVal(SubSeq(s, 19, 24)))

\* the order of two ObjectIds in a Mongo query ($gt): bytewise
OidGT(a, b) ==
    \/ a.sec > b.sec
    \/ a.sec = b.sec /\ a.mid > b.mid
    \/ a.sec = b.sec /\ a.mid = b.mid /\ a.ctr > b.ctr

\* bson.ObjectId.Time, in milliseconds since the epoch: the embedded second
ObjectIdTime(oid) == oid.sec * 1000

parseObjectId(id) ==
    IF id # <<>> /\ IsObjectIdHex(id) THEN [ok |-> TRUE, oid |-> ObjectIdHex(id)]
    ELSE [ok |-> FALSE]

\* parseTimestampId without the test of the length
parseTimestampId_AnyLength(id) ==
    IF ParseIntOk(id) THEN [ok |-> TRUE, ts |-> ParseInt(id)]
    ELSE [ok |-> FALSE, ts |-> 0 - 1]

parseTimestampId(id) ==
    IF Len(id) <= 13 /\ ParseIntOk(id) THEN [ok |-> TRUE, ts |-> ParseInt(id)]
    ELSE [ok |-> FALSE, ts |-> 0 - 1]

\* NewLastId: [err |-> TRUE] or [err |-> FALSE, id |-> a last id]
NewLastId(id) ==
    IF parseTimestampId(id).ok
    THEN [err |-> FALSE, id |-> ReplicationLastId(parseTimestampId(id).ts, FALSE)]
    ELSE IF ~parseObjectId(id).ok
    THEN [err |-> TRUE]
    ELSE [err |-> FALSE, id |-> OperationLastId(parseObjectId(id).oid)]

\* LastId.Time(), in milliseconds since the epoch
IdTime(id) ==
    IF id.kind = "op" THEN ObjectIdTime(id.ObjectId)
    ELSE IF id.kind = "repl" THEN id.int64
    ELSE 0

\* LastId.String()
IdString(id) ==
    IF id.kind = "op" THEN Hex(id.ObjectId)
    ELSE IF id.kind = "repl" THEN FormatInt(id.int64)
    ELSE id.string

\* OperationLastId.Fallback that leaves fallbackMode false
Fallback_NoMode(id) == ReplicationLastId(ObjectIdTime(id.ObjectId), FALSE)

\* OperationLastId.Fallback
Fallback(id) == ReplicationLastId(ObjectIdTime(id.ObjectId), TRUE)

(***************************************************************************)
(* Operations, object states and filters.                                  *)
(***************************************************************************)
\* the objects the producers write about: type, id and parents
Objects ==
    { [Type |-> "a", Id |-> "1", Parents |-> <<"p/1", "q/2">>],
      [Type |-> "b", Id |-> "1", Parents |-> <<>>] }

Events == {"insert", "update", "delete"}

\* OperationData.GetId: the key of the object in the states collection
GetId(obd) == <<obd.Type, "/", obd.Id>>

NoFilter == [Types |-> <<>>, Parents |-> <<>>]

\* the filters a tail is started with: none, one type, several types and one
\* parent, several types and several parents
Filters ==
    {NoFilter,
     [Types |-> <<"b">>, Parents |-> <<>>],
     [Types |-> <<"a", "b">>, Parents |-> <<"q/2">>],
     [Types |-> <<"a", "c">>, Parents |-> <<"p/2", "p/1">>]}

\* apply that adds no clause on data.p
FilterApply_NoParents(f, obd) ==
    CASE Len(f.Types) = 0 -> TRUE
      [] Len(f.Types) = 1 -> obd.Type = f.Types[1]
      [] OTHER -> obd.Type \in Range(f.Types)

\* OpLogFilter.apply: the clauses it adds to a query, as a predicate on the data
FilterApply(f, obd) ==
    /\ CASE Len(f.Types) = 0 -> TRUE
         [] Len(f.Types) = 1 -> obd.Type = f.Types[1]
         [] OTHER -> obd.Type \in Range(f.Types)
    /\ CASE Len(f.Parents) = 0 -> TRUE
         [] Len(f.Parents) = 1 -> f.Parents[1] \in Range(obd.Parents)
         [] OTHER -> Range(obd.Parents) \cap Range(f.Parents) # {}

\* the nil GenericEvent
NoEvent == [kind |-> "nil"]

\* OpLogEvent: the technical events "reset" and "live"
OpLogEvent(id, event) == [kind |-> "event", Id |-> id, Event |-> event]

\* Operation.GetEventId, ObjectState.GetEventId, OpLogEvent.GetEventId
GetEventId(ev) ==
    IF ev.kind = "op" THEN OperationLastId(ev.Id)
    ELSE IF ev.kind = "state" THEN ReplicationLastId(ev.Timestamp, FALSE)
    ELSE GenericLastEventId(ev.Id)

\* the id: line written by WriteTo for each kind of event
WireId(ev) == IdString(GetEventId(ev))

(***************************************************************************)
(* State.                                                                  *)
(***************************************************************************)
VARIABLES
    now,        \* wall clock, milliseconds
    ops,        \* oplog_ops: the capped collection, in natural order
    nextCtr,    \* the number of the next document inserted in oplog_ops, which the
                \* store uses as the counter of the ids it assigns
    states,     \* oplog_states: key -> ObjectState
    app,        \* the appender (OpLog.Append): position and operation
    PageSize,   \* OpLog.PageSize
    pc,         \* position of the tailer
    lastId,     \* Tail: lastId
    filter,     \* Tail: filter
    lastEv,     \* Tail: lastEv
    replicationFallbackId,
    iter,       \* Tail: what iter points to: "nil", "ops" or "states"
    cursor,     \* live cursor: the $gt clause of its query and its position
    operation,  \* live loop: the operation iter.Next filled last, if any
    query,      \* replication query on oplog_states: ts and event clauses
    page,       \* rows left in the iterator of the current page
    c,          \* rows read from the current page
    done,       \* Tail: done, set when stop fires
    out,        \* the events the sink received from the out channel, in order
    errs,       \* store read errors so far
    resp,       \* SSE response: status and Last-Event-ID header
    startId,    \* history: the last id Tail was called with
    startEmpty, \* history: the database was empty when Tail was called
    pass,       \* history: number of replication passes started
    capNow,     \* history: the clock when the fallback id was captured
    skipped,    \* history: the delete rows of the window the last page query left out
    liveFrom,   \* history: the id live tailing was switched to after replication
    hist,       \* history: for each event of out, the pass and fallback id in force
    queue,      \* UDPDaemon.Run: ops, the ingest queue (a buffered channel)
    udp,        \* UDPDaemon.Run: position of the reader and the operation it built
    nDgrams,    \* datagrams read so far
    EventsReceived,   \* Stats.EventsReceived
    EventsDiscarded,  \* Stats.EventsDiscarded
    EventsError,      \* Stats.EventsError
    EventsIngested,   \* Stats.EventsIngested
    wErrs,      \* store write errors so far
    accepted,   \* history: the operations the reader sent to the queue, in order
    applied,    \* history: the operations whose row the appender wrote in the states
    sync,       \* oplog-sync: the event and the maps left to send after Diff
    callers,    \* callers of Append with no db: position and operation of each
    objectIdCounter,  \* bson.NewObjectId: the counter of the process
    consumer,   \* Consumer: lastId, saved, body, ife and the mutex embedded in ife
    tasks,      \* position of Process, readStream and periodicStateSaving
    chans,      \* the channels stopReadStream and stopStateSaving, and done
    conn,       \* the connection: events left in the body, the decoded op, errors
    appl,       \* the application: events received, acks sent, stop, the state file
    sink,       \* the reader of Tail's out channel: "read", or "gone" once it returned
    call        \* the last call of a function checked by itself: arguments and result

storeVars == <<now, ops, nextCtr, states, app>>
tailVars == <<pc, lastId, filter, lastEv, replicationFallbackId, iter, cursor,
              operation, query, page, c, done, out, errs>>
histVars == <<startId, startEmpty, pass, capNow, skipped, liveFrom, hist>>
coreVars == <<storeVars, PageSize, tailVars, resp, histVars>>
udpVars == <<queue, udp, nDgrams, EventsReceived, EventsDiscarded, EventsError, wErrs,
             accepted, applied>>
\* what the tailer, the SSE handler and the clock leave alone
syncVars == <<sync>>
callVars == <<callers, objectIdCounter>>
conVars == <<consumer, tasks, chans, conn, appl>>
sinkVars == <<sink>>
pureVars == <<call>>
extVars == <<udpVars, EventsIngested, syncVars, callVars, conVars, sinkVars, pureVars>>
vars == <<coreVars, extVars>>

NoQuery == [hasGte |-> FALSE, gte |-> 0, hasLte |-> FALSE, lte |-> 0, event |-> ""]
NoCursor == [hasGt |-> FALSE, gt |-> ObjectId(0, 0, 0), pos |-> 0]
NoResp == [status |-> 0, echo |-> FALSE, header |-> <<>>]
IdleApp == [pc |-> "idle"]
UdpReading == [pc |-> "read"]
NoSync == [pc |-> "idle"]
IdleCaller == [pc |-> "idle"]
NoCall == [f |-> ""]
\* Subscribe: the Consumer it returns (body is nil, ife is empty and unlocked)
NewConsumer ==
    [lastId |-> <<>>, saved |-> FALSE, body |-> "nil", ife |-> <<>>, locked |-> FALSE,
     StateFile |-> FALSE]
IdleTasks ==
    [Process |-> "idle", readStream |-> "idle", periodicStateSaving |-> "idle",
     lastId |-> <<>>]
NoChans == [stopReadStream |-> 0, stopStateSaving |-> 0, done |-> FALSE]
NoOp == [ID |-> <<>>, Event |-> ""]
NoConn == [stream |-> <<>>, op |-> NoOp, err |-> FALSE, errors |-> 0, lastId |-> <<>>]
IdleAppl ==
    [got |-> <<>>, acking |-> {}, acked |-> {}, ack |-> 0, stop |-> "no",
     file |-> <<>>, exists |-> FALSE, ErrWritingState |-> 0, sets |-> 0]

Init ==
    /\ now = 1000
    /\ ops = <<>>
    /\ nextCtr = 1
    /\ states = <<>>
    /\ app = IdleApp
    /\ PageSize = SmallPageSize
    /\ pc = "init"
    /\ lastId = NilId
    /\ filter = NoFilter
    /\ lastEv = NoEvent
    /\ replicationFallbackId = NilId
    /\ iter = "nil"
    /\ cursor = NoCursor
    /\ operation = NoEvent
    /\ query = NoQuery
    /\ page = <<>>
    /\ c = 0
    /\ done = FALSE
    /\ out = <<>>
    /\ errs = 0
    /\ resp = NoResp
    /\ startId = NilId
    /\ startEmpty = FALSE
    /\ pass = 0
    /\ capNow = 0
    /\ skipped = {}
    /\ liveFrom = NilId
    /\ hist = <<>>
    /\ queue = <<>>
    /\ udp = UdpReading
    /\ nDgrams = 0
    /\ EventsReceived = 0
    /\ EventsDiscarded = 0
    /\ EventsError = 0
    /\ EventsIngested = 0
    /\ wErrs = 0
    /\ accepted = <<>>
    /\ applied = <<>>
    /\ sync = NoSync
    /\ callers = [cl \in 1..NumCallers |-> IdleCaller]
    /\ objectIdCounter = 1
    /\ consumer = NewConsumer
    /\ tasks = IdleTasks
    /\ chans = NoChans
    /\ conn = NoConn
    /\ appl = IdleAppl
    /\ sink = "read"
    /\ call = NoCall

(***************************************************************************)
(* The clock.                                                              *)
(***************************************************************************)
Tick ==
    /\ now < 1000 + MaxTicks * 500
    /\ now' = now + 500
    /\ UNCHANGED <<ops, nextCtr, states, app, PageSize, tailVars, resp, histVars>>
    /\ UNCHANGED extVars

(***************************************************************************)
(* OpLog.Append: insert in oplog_ops, then upsert in oplog_states. The     *)
(* operation is built with NewOperation by an in-process producer or       *)
(* caller, or without an id by the UDP and HTTP handlers.                  *)
(***************************************************************************)
\* the operations given to Append: every event on the object that has parents, and
\* the creation of the one without
Appended ==
    {<<ev, ob>> \in Events \X Objects : ob.Parents # <<>> \/ ev = "insert"}

\* the operations the in-process producers build: the creation and the deletion
\* of the object that has parents, and the creation of the one without
Produced == {e \in Appended : e[1] # "update"}

\* the time the producers give to their operations, that of the events they report
ProducedTime == 1000

\* db.C("oplog_ops").Insert(op): a capped collection drops its oldest document
CappedInsert(log, op) ==
    IF Len(log) >= CapSize THEN Append(Tail(log), op) ELSE Append(log, op)

\* ObjectState that keeps the event of the operation
ObjectState_SameEvent(op, t) ==
    [kind |-> "state",
     Id |-> GetId(op.Data),
     Event |-> op.Event,
     Timestamp |-> t,
     Data |-> op.Data]

\* the state object Append builds from the operation
ObjectState(op, t) ==
    [kind |-> "state",
     Id |-> GetId(op.Data),
     Event |-> IF op.Event = "update" THEN "insert" ELSE op.Event,
     Timestamp |-> t,
     Data |-> op.Data]

\* db.C("oplog_states").Upsert(bson.M{"_id": o.Id}, o)
Upsert(coll, o) ==
    [k \in DOMAIN coll \cup {o.Id} |-> IF k = o.Id THEN o ELSE coll[k]]

\* the document Insert writes: the operation as it is passed when it carries an id
\* (NewOperation gave it one), and with an id the store assigns at the insertion
\* when it carries none (the id field is omitted when empty)
Stored(op) ==
    IF "Id" \in DOMAIN op THEN op
    ELSE [kind |-> "op",
          Id |-> ObjectId(now \div 1000, 0, nextCtr),
          Event |-> op.Event,
          Data |-> op.Data]

\* the machine part of the ids made by bson.NewObjectId in the callers' process; the
\* store's own ids have machine part 0
ClientMachine == 1

\* NewOperation: the id is made by bson.NewObjectId() when the operation is built
NewOperation(event, time, ob) ==
    [kind |-> "op",
     Id |-> ObjectId(now \div 1000, ClientMachine, objectIdCounter),
     Event |-> event,
     Data |-> [Timestamp |-> time, Parents |-> ob.Parents, Type |-> ob.Type,
               Id |-> ob.Id]]

\* the callers are numbered in the order in which they start: cl is the next one
FirstIdle(cl) ==
    /\ callers[cl].pc = "idle"
    /\ \A other \in 1..(cl - 1) : callers[other].pc # "idle"

\* a caller builds its operation
CallerNew ==
    /\ \E cl \in DOMAIN callers :
         /\ FirstIdle(cl)
         /\ \E e \in Produced :
              callers' = [callers EXCEPT
                            ![cl] = [pc |-> "built",
                                     op |-> NewOperation(e[1], ProducedTime, e[2]),
                                     o |-> NoEvent, http |-> FALSE, status |-> 0]]
    /\ objectIdCounter' = objectIdCounter + 1
    /\ UNCHANGED <<coreVars, udpVars, EventsIngested, syncVars, conVars, sinkVars, pureVars>>

\* Append of a caller: the operation is inserted as it was passed, with the id it
\* carries; the store assigns the id of an operation that has none (the one the
\* HTTP handler built)
CallerInsert ==
    /\ \E cl \in DOMAIN callers :
         /\ callers[cl].pc = "built"
         /\ LET op == Stored(callers[cl].op)
            IN  /\ ops' = CappedInsert(ops, op)
                /\ callers' = [callers EXCEPT ![cl].pc = "inserted", ![cl].op = op]
    /\ nextCtr' = nextCtr + 1
    /\ UNCHANGED <<now, states, app, PageSize, tailVars, resp, histVars,
                   udpVars, EventsIngested, syncVars, objectIdCounter,
                   conVars, sinkVars, pureVars>>

\* Append of a caller: the insert has returned and the state object is built,
\* stamped with the time.Now() of this moment
CallerStamp ==
    /\ \E cl \in DOMAIN callers :
         /\ callers[cl].pc = "inserted"
         /\ callers' = [callers EXCEPT ![cl].pc = "stamped",
                                       ![cl].o = ObjectState(callers[cl].op, now)]
    /\ UNCHANGED <<coreVars, udpVars, EventsIngested, syncVars, objectIdCounter,
                   conVars, sinkVars, pureVars>>

\* Append of a caller: the state object is applied on the states collection
CallerUpsert ==
    /\ \E cl \in DOMAIN callers :
         /\ callers[cl].pc = "stamped"
         /\ states' = Upsert(states, callers[cl].o)
         /\ callers' = [callers EXCEPT ![cl].pc = "upserted"]
    /\ UNCHANGED <<now, ops, nextCtr, app, PageSize, tailVars, resp, histVars,
                   udpVars, EventsIngested, syncVars, objectIdCounter,
                   conVars, sinkVars, pureVars>>

\* Append of a caller: the upsert has returned, EventsIngested.Add(1), and Append
\* returns, to the HTTP handler or to the in-process caller
CallerReturn ==
    /\ \E cl \in DOMAIN callers :
         /\ callers[cl].pc = "upserted"
         /\ callers' = [callers EXCEPT
                          ![cl].pc = IF callers[cl].http THEN "appended" ELSE "done"]
    /\ EventsIngested' = EventsIngested + 1
    /\ UNCHANGED <<coreVars, udpVars, syncVars, objectIdCounter, conVars, sinkVars,
                   pureVars>>

\* no call of Append is in progress and no operation is built and not appended yet
NoAppend ==
    /\ app.pc = "idle"
    /\ \A cl \in DOMAIN callers : callers[cl].pc \in {"idle", "sent", "appended", "done"}

(***************************************************************************)
(* OpLog.Ingest fed by in-process producers, as in ExampleOpLog_Ingest:    *)
(* the producers build operations with NewOperation and send them on the   *)
(* channel, Ingest receives them one at a time and calls Append.          *)
(***************************************************************************)
\* case op := <-ops of Ingest, together with the ops <- op of a producer (the
\* channel of the producers has no buffer): Append is called with the operation
IngestReceive ==
    /\ app.pc = "idle"
    /\ \E cl \in DOMAIN callers :
         /\ callers[cl].pc = "built"
         /\ ~callers[cl].http
         /\ app' = [pc |-> "inserting", op |-> callers[cl].op]
         /\ callers' = [callers EXCEPT ![cl].pc = "sent"]
    /\ UNCHANGED <<now, ops, nextCtr, states, PageSize, tailVars, resp, histVars,
                   udpVars, EventsIngested, syncVars, objectIdCounter, conVars,
                   sinkVars, pureVars>>

\* Append, called by Ingest: the Insert in oplog_ops succeeds
IngestInsert ==
    /\ app.pc = "inserting"
    /\ ops' = CappedInsert(ops, Stored(app.op))
    /\ app' = [pc |-> "inserted", op |-> Stored(app.op), o |-> NoEvent]
    /\ nextCtr' = nextCtr + 1
    /\ UNCHANGED <<now, states, PageSize, tailVars, resp, histVars, extVars>>

\* the insert has returned: Append builds the state object, stamped with the
\* time.Now() of this moment, which no retry of the upsert changes
AppendStamp ==
    /\ app.pc = "inserted"
    /\ app.o = NoEvent
    /\ app' = [app EXCEPT !.o = ObjectState(app.op, now)]
    /\ UNCHANGED <<now, ops, nextCtr, states, PageSize, tailVars, resp, histVars>>
    /\ UNCHANGED extVars

\* the state object is applied on the states collection
AppendUpsert ==
    /\ app.pc = "inserted"
    /\ app.o # NoEvent
    /\ states' = Upsert(states, app.o)
    /\ applied' = Append(applied, app.op)
    /\ app' = [app EXCEPT !.pc = "upserted"]
    /\ UNCHANGED <<now, ops, nextCtr, PageSize, tailVars, resp, histVars, queue, udp,
                   nDgrams, EventsReceived, EventsDiscarded, EventsError,
                   EventsIngested, wErrs, accepted, syncVars, callVars, conVars,
                   sinkVars, pureVars>>

\* the upsert has returned: EventsIngested.Add(1), and Append returns
AppendReturn ==
    /\ app.pc = "upserted"
    /\ app' = IdleApp
    /\ EventsIngested' = EventsIngested + 1
    /\ UNCHANGED <<now, ops, nextCtr, states, PageSize, tailVars, resp, histVars,
                   udpVars, syncVars, callVars, conVars, sinkVars, pureVars>>

(***************************************************************************)
(* OpLog.LastId and OpLog.HasId.                                           *)
(***************************************************************************)
\* the most recently inserted operation id, or nil if the log is empty
LastId == IF ops = <<>> THEN NilId ELSE OperationLastId(ops[Len(ops)].Id)

HasId(id) ==
    IF id.kind = "op" THEN \E i \in DOMAIN ops : ops[i].Id = id.ObjectId
    ELSE TRUE

(***************************************************************************)
(* OpLog.Tail.                                                             *)
(***************************************************************************)
\* out <- ev, with the history of the pass and fallback id in force
Emit(ev) ==
    /\ Len(out) < MaxOut
    /\ out' = Append(out, ev)
    /\ hist' = Append(hist, [pass |-> pass, fid |-> replicationFallbackId,
                             fb |-> lastId.kind = "repl" /\ lastId.fallbackMode,
                             at |-> capNow])

\* the last ids an in-process caller starts a tail with that no request gives
TailIds == {NilId, OpNilId}

\* ResetRequested without the test on the value of the id
ResetRequested_AnyReplication(id) == id # NilId /\ id.kind = "repl"

\* full replication is requested: the tail starts with a "reset" event
ResetRequested(id) == id # NilId /\ id.kind = "repl" /\ id.int64 = 0

\* Tail is called: with a full replication id it is first in out <- reset, an
\* unbuffered send made before done, the goroutine and the select on stop exist
TailCall(id, f) ==
    /\ pc = "init"
    /\ lastId' = id
    /\ filter' = f
    /\ startId' = id
    /\ startEmpty' = (ops = <<>> /\ DOMAIN states = {})
    /\ pc' = IF ResetRequested(id) THEN "reset" ELSE "loop"
    /\ UNCHANGED <<storeVars, PageSize, lastEv, replicationFallbackId, iter, cursor,
                   operation, query, page, c, done, out, errs, pass, capNow, skipped,
                   liveFrom, hist>>

\* the sink receives the reset event: Tail goes on, starts the goroutine and
\* waits for stop
ResetDeliver ==
    /\ pc = "reset"
    /\ sink = "read"
    /\ Emit(OpLogEvent(<<"1">>, "reset"))
    /\ pc' = "loop"
    /\ UNCHANGED <<storeVars, PageSize, lastId, filter, lastEv, replicationFallbackId,
                   iter, cursor, operation, query, page, c, done, errs, resp, startId,
                   startEmpty, pass, capNow, skipped, liveFrom>>
    /\ UNCHANGED extVars

\* a caller of the package starts a tail
TailStart ==
    /\ \E id \in TailIds, f \in Filters : TailCall(id, f)
    /\ UNCHANGED resp
    /\ UNCHANGED extVars

\* LiveMatch without the clause on _id
LiveMatch_NoResume(cur, op) == FilterApply(filter, op.Data)

\* the documents of oplog_ops the live query of the cursor selects
LiveMatch(cur, op) ==
    /\ FilterApply(filter, op.Data)
    /\ cur.hasGt => OidGT(op.Id, cur.gt)

\* the number of documents inserted in oplog_ops so far
Inserted == nextCtr - 1

\* the place in the natural order of the collection of the document ops[i]
Natural(i) == Inserted - Len(ops) + i

\* the positions in ops the cursor has still to return
LivePending(cur) ==
    {i \in DOMAIN ops : Natural(i) > cur.pos /\ LiveMatch(cur, ops[i])}

\* lastId is an *OperationLastId: open the tail cursor on oplog_ops
LiveOpen ==
    /\ pc = "loop"
    /\ lastId.kind \in {"op", "opnil"}
    /\ cursor' = [hasGt |-> lastId.kind = "op",
                  gt |-> IF lastId.kind = "op" THEN lastId.ObjectId ELSE ObjectId(0, 0, 0),
                  pos |-> 0]
    /\ iter' = "ops"
    /\ operation' = NoEvent
    /\ pc' = "live"
    /\ UNCHANGED <<storeVars, PageSize, lastId, filter, lastEv, replicationFallbackId,
                   query, page, c, done, out, errs, resp, histVars>>
    /\ UNCHANGED extVars

\* iter.Next(&operation) returns the next operation of the cursor, and isDone()
\* is tested: the goroutine returns, or goes to out <- operation
LiveNext ==
    /\ pc = "live"
    /\ LivePending(cursor) # {}
    /\ LET i == CHOOSE j \in LivePending(cursor) : \A k \in LivePending(cursor) : j <= k
       IN  /\ operation' = ops[i]
           /\ cursor' = [cursor EXCEPT !.pos = Natural(i)]
    /\ pc' = IF done THEN "returned" ELSE "send"
    /\ UNCHANGED <<storeVars, PageSize, lastId, filter, lastEv, replicationFallbackId,
                   iter, query, page, c, done, out, errs, resp, histVars>>
    /\ UNCHANGED extVars

\* the sink receives the operation: out <- operation returns, lastEv = operation
LiveDeliver ==
    /\ pc = "send"
    /\ sink = "read"
    /\ Emit(operation)
    /\ lastEv' = operation
    /\ pc' = "live"
    /\ UNCHANGED <<storeVars, PageSize, lastId, filter, replicationFallbackId, iter,
                   cursor, operation, query, page, c, done, errs, resp, startId,
                   startEmpty, pass, capNow, skipped, liveFrom>>
    /\ UNCHANGED extVars

\* the cursor dies without an error (as on an empty collection)
LiveDead ==
    /\ pc = "live"
    /\ LivePending(cursor) = {}
    /\ pc' = IF done THEN "returned" ELSE IF operation # NoEvent THEN "retry" ELSE "loop"
    /\ UNCHANGED <<storeVars, PageSize, lastId, filter, lastEv, replicationFallbackId,
                   iter, cursor, operation, query, page, c, done, out, errs, resp,
                   histVars>>
    /\ UNCHANGED extVars

\* the cursor fails: iter.Err() != nil
LiveError ==
    /\ pc = "live"
    /\ errs < MaxErrors
    /\ errs' = errs + 1
    /\ pc' = IF done THEN "returned" ELSE "retry"
    /\ UNCHANGED <<storeVars, PageSize, lastId, filter, lastEv, replicationFallbackId,
                   iter, cursor, operation, query, page, c, done, out, resp, histVars>>
    /\ UNCHANGED extVars

\* ReplQuery that selects inserts in fallback mode too
ReplQuery_InsertsOnly(i, fid) ==
    [hasGte |-> i.int64 > 0,
     gte |-> IF i.int64 > 0 THEN IdTime(i) ELSE 0,
     hasLte |-> fid # NilId,
     lte |-> IF fid # NilId THEN IdTime(fid) ELSE 0,
     event |-> "insert"]

\* the replication query built from the last id and the fallback id
ReplQuery(i, fid) ==
    [hasGte |-> i.int64 > 0,
     gte |-> IF i.int64 > 0 THEN IdTime(i) ELSE 0,
     hasLte |-> fid # NilId,
     lte |-> IF fid # NilId THEN IdTime(fid) ELSE 0,
     event |-> IF ~i.fallbackMode THEN "insert" ELSE ""]

\* lastId is a *ReplicationLastId: capture the fallback id and build the query
ReplCapture ==
    /\ pc = "loop"
    /\ lastId.kind = "repl"
    /\ replicationFallbackId' = LastId
    /\ query' = ReplQuery(lastId, LastId)
    /\ pass' = pass + 1
    /\ capNow' = now
    /\ pc' = "page"
    /\ UNCHANGED <<storeVars, PageSize, lastId, filter, lastEv, iter, cursor, operation,
                   page, c, done, out, errs, resp, startId, startEmpty, skipped,
                   liveFrom, hist>>
    /\ UNCHANGED extVars

\* oplog.LastId() fails: goto retry
ReplCaptureError ==
    /\ pc = "loop"
    /\ lastId.kind = "repl"
    /\ errs < MaxErrors
    /\ errs' = errs + 1
    /\ replicationFallbackId' = NilId
    /\ pc' = "retry"
    /\ UNCHANGED <<storeVars, PageSize, lastId, filter, lastEv, iter, cursor, operation,
                   query, page, c, done, out, resp, histVars>>
    /\ UNCHANGED extVars

\* lastId is neither: panic("Invalid last id type")
InvalidLastId ==
    /\ pc = "loop"
    /\ lastId.kind \notin {"op", "opnil", "repl"}
    /\ pc' = "panic"
    /\ UNCHANGED <<storeVars, PageSize, lastId, filter, lastEv, replicationFallbackId,
                   iter, cursor, operation, query, page, c, done, out, errs, resp,
                   histVars>>
    /\ UNCHANGED extVars

\* the clauses of the replication query on ts and event: query["ts"] is always
\* set, and a tsClause left empty is an equality with the empty document, which
\* no row satisfies
QueryMatch(q, row) ==
    /\ q.hasGte \/ q.hasLte
    /\ q.hasGte => row.Timestamp >= q.gte
    /\ q.hasLte => row.Timestamp <= q.lte
    /\ q.event # "" => row.Event = q.event

\* the rows of oplog_states the replication query selects
ReplMatch(q, row) == FilterApply(filter, row.Data) /\ QueryMatch(q, row)

ReplSelected(q) == {k \in DOMAIN states : ReplMatch(q, states[k])}

Min(a, b) == IF a < b THEN a ELSE b

\* Find(query).Sort("ts").Limit(n): the first n selected rows by ts; rows of equal
\* ts come in any order
Pages(q, n) ==
    LET sel == ReplSelected(q)
        m == Min(n, Cardinality(sel))
    IN  {s \in [1..m -> sel] :
           /\ \A i, j \in 1..m : i < j => s[i] # s[j]
           /\ \A i, j \in 1..m : i < j => states[s[i]].Timestamp <= states[s[j]].Timestamp
           /\ \A k \in sel \ Range(s) :
                \A i \in 1..m : states[s[i]].Timestamp <= states[k].Timestamp}

\* the rows flagged delete that pass the filter and are in the window of the pass:
\* from the lower bound, if any, to Time() of the fallback id captured for the
\* pass, if any; with neither bound (a last id of value 0 and a log that was empty
\* at the capture) the window frozen at the capture holds no row
WindowDeletes(q) ==
    {k \in DOMAIN states :
       /\ states[k].Event = "delete"
       /\ FilterApply(filter, states[k].Data)
       /\ q.hasGte \/ q.hasLte
       /\ q.hasGte => states[k].Timestamp >= q.gte
       /\ q.hasLte => states[k].Timestamp <= q.lte}

\* iter = db.C("oplog_states").Find(query).Sort("ts").Limit(oplog.PageSize).Iter()
PageQuery ==
    /\ pc = "page"
    /\ \E s \in Pages(query, PageSize) :
         page' = [i \in DOMAIN s |-> states[s[i]]]
    /\ skipped' = WindowDeletes(query) \ ReplSelected(query)
    /\ iter' = "states"
    /\ c' = 0
    /\ pc' = "iter"
    /\ UNCHANGED <<storeVars, PageSize, lastId, filter, lastEv, replicationFallbackId,
                   cursor, operation, query, done, out, errs, resp, startId, startEmpty,
                   pass, capNow, liveFrom, hist>>
    /\ UNCHANGED extVars

\* iter.Next(&object) returns the next row of the page, and isDone() is tested:
\* the goroutine returns, or goes to out <- object
PageNext ==
    /\ pc = "iter"
    /\ page # <<>>
    /\ pc' = IF done THEN "returned" ELSE "rowsend"
    /\ UNCHANGED <<storeVars, PageSize, lastId, filter, lastEv, replicationFallbackId,
                   iter, cursor, operation, query, page, c, done, out, errs, resp,
                   histVars>>
    /\ UNCHANGED extVars

\* the sink receives the row: out <- object returns, lastEv = object, c++
PageDeliver ==
    /\ pc = "rowsend"
    /\ sink = "read"
    /\ Emit(Head(page))
    /\ lastEv' = Head(page)
    /\ page' = Tail(page)
    /\ c' = c + 1
    /\ pc' = "iter"
    /\ UNCHANGED <<storeVars, PageSize, lastId, filter, replicationFallbackId, iter,
                   cursor, operation, query, done, errs, resp, startId, startEmpty,
                   pass, capNow, skipped, liveFrom>>
    /\ UNCHANGED extVars

\* the iterator of the page fails: goto retry
PageError ==
    /\ pc = "iter"
    /\ errs < MaxErrors
    /\ errs' = errs + 1
    /\ page' = <<>>
    /\ pc' = IF done THEN "returned" ELSE "retry"
    /\ UNCHANGED <<storeVars, PageSize, lastId, filter, lastEv, replicationFallbackId,
                   iter, cursor, operation, query, c, done, out, resp, histVars>>
    /\ UNCHANGED extVars

\* a full page was read: the next page starts at the timestamp of the last row
PageContinue ==
    /\ pc = "iter"
    /\ page = <<>>
    /\ IF done
       THEN pc' = "returned" /\ UNCHANGED query
       ELSE /\ lastEv # NoEvent /\ c = PageSize
            /\ query' = [query EXCEPT !.hasGte = TRUE, !.gte = IdTime(GetEventId(lastEv))]
            /\ pc' = "page"
    /\ UNCHANGED <<storeVars, PageSize, lastId, filter, lastEv, replicationFallbackId,
                   iter, cursor, operation, page, c, done, out, errs, resp, histVars>>
    /\ UNCHANGED extVars

\* the id of the "live" event
LiveId == IF lastEv # NoEvent THEN IdString(GetEventId(lastEv)) ELSE <<>>

\* the last page was read (isDone() false, no error, fewer rows than PageSize):
\* the goroutine goes to out <- live
PageLast ==
    /\ pc = "iter"
    /\ page = <<>>
    /\ ~done
    /\ ~(lastEv # NoEvent /\ c = PageSize)
    /\ pc' = "livesend"
    /\ UNCHANGED <<storeVars, PageSize, lastId, filter, lastEv, replicationFallbackId,
                   iter, cursor, operation, query, page, c, done, out, errs, resp,
                   histVars>>
    /\ UNCHANGED extVars

\* the sink receives the "live" event: switch to the captured fallback id
SwitchToLive ==
    /\ pc = "livesend"
    /\ sink = "read"
    /\ Emit(OpLogEvent(LiveId, "live"))
    /\ lastId' = replicationFallbackId
    /\ liveFrom' = replicationFallbackId
    /\ replicationFallbackId' = NilId
    /\ lastEv' = NoEvent
    /\ pc' = "retry"
    /\ UNCHANGED <<storeVars, PageSize, filter, iter, cursor, operation, query, page,
                   c, done, errs, resp, startId, startEmpty, pass, capNow, skipped>>
    /\ UNCHANGED extVars

\* the last id the next turn of the loop starts from
RetryId == IF lastEv # NoEvent THEN GetEventId(lastEv) ELSE lastId

\* retry: iter.Close(), sleep, refresh, resume from the last event if any
Retry ==
    /\ pc = "retry"
    /\ IF iter = "nil"
       THEN pc' = "panic" /\ UNCHANGED lastId
       ELSE pc' = "loop" /\ lastId' = RetryId
    /\ UNCHANGED <<storeVars, PageSize, filter, lastEv, replicationFallbackId, iter,
                   cursor, operation, query, page, c, done, out, errs, resp, histVars>>
    /\ UNCHANGED extVars

\* the positions of the goroutine while Tail waits in its select on stop
Running == {"loop", "live", "send", "page", "iter", "rowsend", "livesend", "retry"}

\* stop fires: the select of Tail takes it and sets done under the lock, whatever
\* the goroutine does
Stop ==
    /\ pc \in Running
    /\ ~done
    /\ done' = TRUE
    /\ UNCHANGED <<storeVars, PageSize, pc, lastId, filter, lastEv,
                   replicationFallbackId, iter, cursor, operation, query, page, c, out,
                   errs, resp, histVars>>
    /\ UNCHANGED extVars

(***************************************************************************)
(* SSEDaemon.Ops: from the Last-Event-ID header to the call of Tail.       *)
(***************************************************************************)
\* the Last-Event-ID headers the consumers send: none, replication ids, the ids of
\* operations of the log, ids of operations no longer in the log, garbage
Headers ==
    {<<>>, <<"z">>}
      \cup {FormatInt(ms) : ms \in {0, 1000}}
      \cup {Hex(ops[i].Id) : i \in DOMAIN ops}
      \cup {Hex(ObjectId(s, 0, 0)) : s \in {0, 1}}

\* the handler answers with an error status and returns: no tail is started
Refuse(status) ==
    /\ resp' = [status |-> status, echo |-> FALSE, header |-> <<>>]
    /\ pc' = "closed"
    /\ UNCHANGED <<storeVars, PageSize, lastId, filter, lastEv, replicationFallbackId,
                   iter, cursor, operation, query, page, c, done, out, errs, histVars>>

\* SSEDaemon.Ops up to go Tail(...): 406 without Accept: text/event-stream, 401
\* when authenticate fails, 503 when LastID or HasID fails, 400 for a header
\* NewLastID rejects; else the stream starts, with the header echoed if any
Ops ==
    /\ pc = "init"
    /\ resp = NoResp
    /\ \/ Refuse(406)
       \/ Refuse(401)
       \/ \E h \in Headers, f \in Filters :
            IF h = <<>>
            THEN \/ Refuse(503)
                 \/ /\ resp' = [status |-> 200, echo |-> FALSE, header |-> <<>>]
                    /\ TailCall(LastId, f)
            ELSE IF NewLastId(h).err
            THEN Refuse(400)
            ELSE \/ Refuse(503)
                 \/ /\ resp' = [status |-> 200, echo |-> TRUE, header |-> h]
                    /\ TailCall(IF HasId(NewLastId(h).id) THEN NewLastId(h).id
                                ELSE Fallback(NewLastId(h).id), f)
    /\ UNCHANGED extVars

Next ==
    \/ Tick
    \/ CallerNew
    \/ IngestReceive
    \/ IngestInsert
    \/ AppendStamp
    \/ AppendUpsert
    \/ AppendReturn
    \/ TailStart
    \/ Ops
    \/ LiveOpen
    \/ ResetDeliver
    \/ LiveNext
    \/ LiveDeliver
    \/ LiveDead
    \/ LiveError
    \/ ReplCapture
    \/ ReplCaptureError
    \/ InvalidLastId
    \/ PageQuery
    \/ PageNext
    \/ PageDeliver
    \/ PageError
    \/ PageContinue
    \/ PageLast
    \/ SwitchToLive
    \/ Retry

Spec == Init /\ [][Next]_vars

\* the same with the stop channel firing at any time
NextStop == Next \/ Stop

SpecStop == Init /\ [][NextStop]_vars

(***************************************************************************)
(* Cancellation: the iterator goroutine blocked in out <- operation, and   *)
(* the SSE handler that returns and sends stop from its deferred function. *)
(***************************************************************************)
\* SSEDaemon.Ops returns on CloseNotify: it reads ops no more and waits in its
\* deferred stop <- true, which the select of Tail takes in a later step (Stop);
\* when Tail is still in out <- reset nothing receives the stop
HandlerReturn ==
    /\ resp.status = 200
    /\ pc \in Running \cup {"reset"}
    /\ sink = "read"
    /\ ~done
    /\ sink' = "gone"
    /\ UNCHANGED <<storeVars, PageSize, pc, lastId, filter, lastEv,
                   replicationFallbackId, iter, cursor, operation, query, page, c, done,
                   out, errs, resp, histVars>>
    /\ UNCHANGED <<udpVars, EventsIngested, syncVars, callVars, conVars, pureVars>>

\* the steps the iterator goroutine takes by itself
TailSteps ==
    \/ ResetDeliver
    \/ LiveOpen
    \/ LiveNext
    \/ LiveDeliver
    \/ ReplCapture
    \/ InvalidLastId
    \/ PageQuery
    \/ PageNext
    \/ PageDeliver
    \/ PageContinue
    \/ PageLast
    \/ SwitchToLive
    \/ Retry

NextCancel ==
    \/ CallerNew
    \/ IngestReceive
    \/ IngestInsert
    \/ AppendStamp
    \/ AppendUpsert
    \/ AppendReturn
    \/ Ops
    \/ ResetDeliver
    \/ LiveOpen
    \/ LiveNext
    \/ LiveDeliver
    \/ LiveDead
    \/ ReplCapture
    \/ InvalidLastId
    \/ PageQuery
    \/ PageNext
    \/ PageDeliver
    \/ PageContinue
    \/ PageLast
    \/ SwitchToLive
    \/ Retry
    \/ Stop
    \/ HandlerReturn

\* the goroutine takes a step when it can, and the select of Tail takes the stop
\* the returned handler is sending; appends, the death of the cursor and a stop
\* from elsewhere are free; the reads of the store do not fail
SpecCancel ==
    /\ Init
    /\ [][NextCancel]_vars
    /\ WF_vars(TailSteps)
    /\ WF_vars(sink = "gone" /\ Stop)

(***************************************************************************)
(* UDPDaemon.Run and OpLog.Ingest: the UDP reader, the ingest queue and    *)
(* the appender.                                                           *)
(***************************************************************************)
\* strings.ToLower on the strings the producers send
ToLower(str) ==
    CASE str = "INSERT" -> "insert"
      [] str = "A" -> "a"
      [] OTHER -> str

\* Operation.Validate and OperationData.Validate
Validate(op) ==
    /\ op.Event \in {"insert", "update", "delete"}
    /\ op.Data.Id # ""
    /\ op.Data.Type # ""
    /\ \A i \in DOMAIN op.Data.Parents : op.Data.Parents[i] # ""

\* the datagrams the producers send, the k-th one of a behaviour: the operations
\* given to Append, with or without a timestamp, and malformed ones
Datagrams(k) ==
    { [json |-> TRUE, Event |-> e[1], Parents |-> e[2].Parents, Type |-> e[2].Type,
       Id |-> e[2].Id, hasTimestamp |-> TRUE, Timestamp |-> 900 + k] :
         e \in Appended }
    \cup
    { [json |-> FALSE],
      [json |-> TRUE, Event |-> "INSERT", Parents |-> <<>>, Type |-> "A", Id |-> "1",
       hasTimestamp |-> FALSE],
      [json |-> TRUE, Event |-> "create", Parents |-> <<>>, Type |-> "a", Id |-> "1",
       hasTimestamp |-> FALSE],
      [json |-> TRUE, Event |-> "insert", Parents |-> <<>>, Type |-> "a", Id |-> "",
       hasTimestamp |-> FALSE],
      [json |-> TRUE, Event |-> "insert", Parents |-> <<"">>, Type |-> "a", Id |-> "1",
       hasTimestamp |-> FALSE] }

\* the Operation the reader builds from a decoded datagram; it has no id yet
UdpOperation(d) ==
    [kind |-> "op",
     Event |-> ToLower(d.Event),
     Data |-> [Timestamp |-> IF d.hasTimestamp THEN d.Timestamp ELSE now,
               Parents |-> d.Parents,
               Type |-> ToLower(d.Type),
               Id |-> d.Id]]

\* QueueFull that lets a datagram through when the queue holds queueMaxSize operations
QueueFull_OffByOne(queueSize) == queueSize > QueueMaxSize

\* the reader's test on len(ops)
QueueFull(queueSize) == queueSize >= QueueMaxSize

\* one turn of the reader's loop up to the send on the queue
UdpRead ==
    /\ udp.pc = "read"
    /\ nDgrams < MaxDgrams
    /\ nDgrams' = nDgrams + 1
    /\ \E d \in Datagrams(nDgrams + 1) :
         IF QueueFull(Len(queue))
         THEN /\ EventsDiscarded' = EventsDiscarded + 1
              /\ UNCHANGED <<udp, EventsError, EventsReceived>>
         ELSE IF ~d.json \/ ~Validate(UdpOperation(d))
         THEN /\ EventsError' = EventsError + 1
              /\ UNCHANGED <<udp, EventsDiscarded, EventsReceived>>
         ELSE /\ EventsReceived' = EventsReceived + 1
              /\ udp' = [pc |-> "send", op |-> UdpOperation(d)]
              /\ UNCHANGED <<EventsDiscarded, EventsError>>
    /\ UNCHANGED <<coreVars, queue, EventsIngested, wErrs, accepted, applied, syncVars, callVars, conVars, sinkVars, pureVars>>

\* ops <- &op: the send blocks while the queue is full
UdpSend ==
    /\ udp.pc = "send"
    /\ Len(queue) < QueueMaxSize
    /\ queue' = Append(queue, udp.op)
    /\ accepted' = Append(accepted, udp.op)
    /\ udp' = UdpReading
    /\ UNCHANGED <<coreVars, nDgrams, EventsReceived, EventsDiscarded, EventsError,
                   EventsIngested, wErrs, applied, syncVars, callVars, conVars, sinkVars,
                   pureVars>>

\* Ingest that takes the operation queued last
IngestTake_Last ==
    /\ app.pc = "idle"
    /\ queue # <<>>
    /\ app' = [pc |-> "inserting", op |-> queue[Len(queue)]]
    /\ queue' = SubSeq(queue, 1, Len(queue) - 1)
    /\ UNCHANGED <<now, ops, nextCtr, states, PageSize, tailVars, resp, histVars, udp,
                   nDgrams, EventsReceived, EventsDiscarded, EventsError,
                   EventsIngested, wErrs, accepted, applied, syncVars, callVars, conVars, sinkVars, pureVars>>

\* Ingest takes the next operation of the queue and calls Append
IngestTake ==
    /\ app.pc = "idle"
    /\ queue # <<>>
    /\ app' = [pc |-> "inserting", op |-> Head(queue)]
    /\ queue' = Tail(queue)
    /\ UNCHANGED <<now, ops, nextCtr, states, PageSize, tailVars, resp, histVars, udp,
                   nDgrams, EventsReceived, EventsDiscarded, EventsError,
                   EventsIngested, wErrs, accepted, applied, syncVars, callVars, conVars, sinkVars, pureVars>>

\* Insert returns an error: Append sleeps and calls Insert again with the same
\* operation, which has no id; the store had applied the write, or had not
IngestInsertError ==
    /\ app.pc = "inserting"
    /\ wErrs < MaxWriteErrors
    /\ wErrs' = wErrs + 1
    /\ \/ UNCHANGED <<ops, nextCtr>>
       \/ /\ ops' = CappedInsert(ops, Stored(app.op))
          /\ nextCtr' = nextCtr + 1
    /\ UNCHANGED <<now, states, app, PageSize, tailVars, resp, histVars, queue, udp,
                   nDgrams, EventsReceived, EventsDiscarded, EventsError,
                   EventsIngested, accepted, applied, syncVars, callVars, conVars,
                   sinkVars, pureVars>>

\* Upsert returns an error: Append sleeps and calls Upsert again with the same
\* state object; the store had applied the write, or had not
AppendUpsertError ==
    /\ app.pc = "inserted"
    /\ app.o # NoEvent
    /\ wErrs < MaxWriteErrors
    /\ wErrs' = wErrs + 1
    /\ \/ UNCHANGED <<states, applied>>
       \/ /\ states' = Upsert(states, app.o)
          /\ applied' = Append(applied, app.op)
    /\ UNCHANGED <<now, ops, nextCtr, app, PageSize, tailVars, resp, histVars, queue,
                   udp, nDgrams, EventsReceived, EventsDiscarded, EventsError,
                   EventsIngested, accepted, syncVars, callVars, conVars, sinkVars,
                   pureVars>>

NextUdp ==
    \/ UdpRead
    \/ UdpSend
    \/ IngestTake
    \/ IngestInsert
    \/ IngestInsertError
    \/ AppendStamp
    \/ AppendUpsert
    \/ AppendUpsertError
    \/ AppendReturn

\* the reader, the queue and the appender; the appender keeps running and store
\* writes end up succeeding
SpecUdp ==
    /\ Init
    /\ [][NextUdp]_vars
    /\ WF_vars(IngestTake)
    /\ WF_vars(IngestInsert)
    /\ WF_vars(AppendStamp)
    /\ WF_vars(AppendUpsert)
    /\ WF_vars(AppendReturn)

(***************************************************************************)
(* oplog-sync: the operations sent after Diff has filled the three maps.   *)
(***************************************************************************)
\* the entries of the dump, validated when the dump is loaded
DumpData ==
    {[Timestamp |-> 900, Parents |-> ob.Parents, Type |-> ob.Type, Id |-> ob.Id] :
       ob \in Objects}

\* the event the sync command starts with, for the entries of createMap
SyncCreateEvent == "create"

\* the event sent for the entries of the map after the current one
SyncNextEvent(event) == IF event = SyncCreateEvent THEN "update" ELSE "delete"

\* Diff has returned: createMap, updateMap and deleteMap hold entries of the dump
\* and of the states
SyncStart ==
    /\ sync.pc = "idle"
    /\ app.pc = "idle"
    /\ \E createMap \in SUBSET DumpData, updateMap \in SUBSET DumpData,
          deleteMap \in SUBSET DumpData :
         sync' = [pc |-> "send", event |-> SyncCreateEvent, todo |-> createMap,
                  updateMap |-> updateMap, deleteMap |-> deleteMap]
    /\ UNCHANGED <<coreVars, udpVars, EventsIngested, callVars, conVars, sinkVars, pureVars>>

\* genEvents: Append is called with the next entry of the current map
SyncGenEvent ==
    /\ sync.pc = "send"
    /\ app.pc = "idle"
    /\ \E obd \in sync.todo :
         /\ app' = [pc |-> "inserting",
                    op |-> [kind |-> "op", Event |-> sync.event, Data |-> obd]]
         /\ sync' = [sync EXCEPT !.todo = @ \ {obd}]
    /\ UNCHANGED <<now, ops, nextCtr, states, PageSize, tailVars, resp, histVars,
                   udpVars, EventsIngested, callVars, conVars, sinkVars, pureVars>>

\* the current map is done: the event is changed and the next map is sent
SyncNextMap ==
    /\ sync.pc = "send"
    /\ app.pc = "idle"
    /\ sync.todo = {}
    /\ sync' = IF sync.event = "delete"
               THEN [sync EXCEPT !.pc = "done"]
               ELSE [sync EXCEPT !.event = SyncNextEvent(sync.event),
                                 !.todo = IF sync.event = SyncCreateEvent
                                          THEN sync.updateMap ELSE sync.deleteMap]
    /\ UNCHANGED <<coreVars, udpVars, EventsIngested, callVars, conVars, sinkVars, pureVars>>

NextSync ==
    \/ SyncStart
    \/ SyncGenEvent
    \/ SyncNextMap
    \/ IngestInsert
    \/ IngestInsertError
    \/ AppendStamp
    \/ AppendUpsert
    \/ AppendUpsertError
    \/ AppendReturn

SpecSync == Init /\ [][NextSync]_vars

(***************************************************************************)
(* SSEDaemon.PostOps, the handler of POST /ops, and the callers of Append  *)
(* by themselves.                                                          *)
(***************************************************************************)
\* the requests POSTed to /ops, the k-th handler's: a wrong password, a wrong
\* Content-Type, a body that cannot be read, and the bodies the producers send
PostRequests(k) ==
    {[kind |-> "password"], [kind |-> "type"], [kind |-> "read"]}
      \cup {[kind |-> "body", d |-> d] : d \in Datagrams(k)}

\* the operation built from a request body: the JSON is decoded, event and type
\* are put in lower case, the timestamp defaults to time.Now(), and the
\* operation is validated; it has no id yet. With an error the operation
\* returned is nil
ingestOperation(d) ==
    IF d.json /\ Validate(UdpOperation(d))
    THEN [err |-> FALSE, op |-> UdpOperation(d)]
    ELSE [err |-> TRUE, op |-> NoEvent]

\* SSEDaemon.PostOps up to its call of Append: 401, 415, or 503 and
\* EventsError.Add(1) for a body it cannot read or rejects
PostOps ==
    /\ \E cl \in DOMAIN callers :
         /\ FirstIdle(cl)
         /\ \E req \in PostRequests(cl) :
              LET Answer(st) == [pc |-> "done", op |-> NoEvent, o |-> NoEvent,
                                 http |-> TRUE, status |-> st]
              IN  IF req.kind = "password"
                  THEN /\ callers' = [callers EXCEPT ![cl] = Answer(401)]
                       /\ UNCHANGED EventsError
                  ELSE IF req.kind = "type"
                  THEN /\ callers' = [callers EXCEPT ![cl] = Answer(415)]
                       /\ UNCHANGED EventsError
                  ELSE IF req.kind = "read" \/ ingestOperation(req.d).err
                  THEN /\ callers' = [callers EXCEPT ![cl] = Answer(503)]
                       /\ EventsError' = EventsError + 1
                  ELSE /\ callers' = [callers EXCEPT
                                        ![cl] = [pc |-> "built",
                                                 op |-> ingestOperation(req.d).op,
                                                 o |-> NoEvent, http |-> TRUE,
                                                 status |-> 0]]
                       /\ UNCHANGED EventsError
    /\ UNCHANGED <<coreVars, queue, udp, nDgrams, EventsReceived, EventsDiscarded,
                   wErrs, accepted, applied, EventsIngested, syncVars, objectIdCounter,
                   conVars, sinkVars, pureVars>>

\* SSEDaemon.PostOps after Append has returned: EventsReceived.Add(1) and 204
PostOpsReturn ==
    /\ \E cl \in DOMAIN callers :
         /\ callers[cl].pc = "appended"
         /\ callers' = [callers EXCEPT ![cl].pc = "done", ![cl].status = 204]
    /\ EventsReceived' = EventsReceived + 1
    /\ UNCHANGED <<coreVars, queue, udp, nDgrams, EventsDiscarded, EventsError,
                   wErrs, accepted, applied, EventsIngested, syncVars, objectIdCounter,
                   conVars, sinkVars, pureVars>>

NextCallers ==
    \/ Tick
    \/ CallerNew
    \/ PostOps
    \/ CallerInsert
    \/ CallerStamp
    \/ CallerUpsert
    \/ CallerReturn
    \/ PostOpsReturn

SpecCallers == Init /\ [][NextCallers]_vars

(***************************************************************************)
(* The consumer: Subscribe, Process, readStream, periodicStateSaving and   *)
(* the in flight events, against a server whose database does not change.  *)
(***************************************************************************)
\* the object states the server holds, sorted by ts
FeedStates ==
    << ObjectState([Event |-> "insert",
                    Data |-> [Timestamp |-> 1000, Parents |-> <<"p/1">>,
                              Type |-> "a", Id |-> "1"]], 1000),
       ObjectState([Event |-> "insert",
                    Data |-> [Timestamp |-> 1001, Parents |-> <<>>,
                              Type |-> "b", Id |-> "1"]], 1001) >>

\* Decoder.Next on what WriteTo wrote: the id: and event: lines of the event
Decoded(ev) == [ID |-> WireId(ev), Event |-> ev.Event]

\* the operations of the server's capped log, in natural order: two operations
\* inserted at second 2, whose rows are not written yet; the operations that
\* wrote the rows of FeedStates are no longer in it
FeedOps ==
    << [kind |-> "op", Id |-> ObjectId(2, 0, 2), Event |-> "update",
        Data |-> [Timestamp |-> 2000, Parents |-> <<"p/1">>, Type |-> "a",
                  Id |-> "1"]],
       [kind |-> "op", Id |-> ObjectId(2, 0, 3), Event |-> "delete",
        Data |-> [Timestamp |-> 2001, Parents |-> <<>>, Type |-> "b", Id |-> "1"]] >>

\* OpLog.LastId on the server's log, which Tail captures as the fallback id of a
\* replication
FeedLastId == OperationLastId(FeedOps[Len(FeedOps)].Id)

\* the rows of FeedStates the replication query of last id l selects, in order:
\* the rows whose ts is at least l, when l is not 0, and at most the time of the
\* fallback id
RowsFrom(l) ==
    LET q == ReplQuery(l, FeedLastId)
        F[i \in 0..Len(FeedStates)] ==
          IF i = 0 THEN <<>>
          ELSE IF QueryMatch(q, FeedStates[i]) THEN Append(F[i - 1], FeedStates[i])
          ELSE F[i - 1]
    IN  F[Len(FeedStates)]

\* the events Tail sends for the operation id l, which is in the log: the
\* operations of the log with a greater id, in natural order
LiveStream(l) ==
    LET F[i \in 0..Len(FeedOps)] ==
          IF i = 0 THEN <<>>
          ELSE IF OidGT(FeedOps[i].Id, l.ObjectId)
               THEN Append(F[i - 1], Decoded(FeedOps[i]))
               ELSE F[i - 1]
    IN  F[Len(FeedOps)]

\* the events Tail sends for the replication id l: "reset" when it is 0, the rows
\* selected, "live", then the operations after the fallback id
ReplStream(l) ==
    LET rows == RowsFrom(l)
        liveId == IF rows = <<>> THEN <<>> ELSE WireId(rows[Len(rows)])
    IN  (IF l.int64 = 0 THEN <<Decoded(OpLogEvent(<<"1">>, "reset"))>> ELSE <<>>)
        \o [i \in DOMAIN rows |-> Decoded(rows[i])]
        \o <<Decoded(OpLogEvent(liveId, "live"))>>
        \o LiveStream(FeedLastId)

\* SSEDaemon.Ops and Tail for a last id the server has parsed: the operations
\* after an operation id that is in the log, the replication from the fallback
\* id of one that is not, the replication for a replication id
TailStream(l) ==
    IF l.kind = "op"
    THEN IF \E i \in DOMAIN FeedOps : FeedOps[i].Id = l.ObjectId
         THEN LiveStream(l)
         ELSE ReplStream(Fallback(l))
    ELSE ReplStream(l)

\* the events the server streams to a request with this Last-Event-ID: nothing
\* without the header (the tail starts at the last operation and nothing is
\* appended), and the stream of Tail for the id of the header
ServerStream(id) ==
    IF id = <<>> \/ NewLastId(id).err THEN <<>>
    ELSE CHOOSE s \in {TailStream(l) : l \in {NewLastId(id).id}} : TRUE

\* regexp.Match("^(?:[0-9]{0,13}|[0-9a-f]{24})$", content)
MatchStateFile(content) ==
    \/ Len(content) <= 13 /\ \A i \in DOMAIN content : content[i] \in Range(Digits)
    \/ Len(content) = 24 /\ \A i \in DOMAIN content : content[i] \in Range(HexDigits)

\* loadLastEventID that takes the content of the file as it is
loadLastEventID_NoMatch(StateFile, exists, content) ==
    IF ~StateFile THEN [id |-> <<>>, err |-> FALSE]
    ELSE IF ~exists THEN [id |-> <<"0">>, err |-> FALSE]
    ELSE [id |-> content, err |-> FALSE]

\* loadLastEventID: StateFile says whether the option is set, exists whether
\* os.Stat finds the file, content is what ioutil.ReadFile returns
loadLastEventID(StateFile, exists, content) ==
    IF ~StateFile THEN [id |-> <<>>, err |-> FALSE]
    ELSE IF ~exists THEN [id |-> <<"0">>, err |-> FALSE]
    ELSE [id |-> content, err |-> ~MatchStateFile(content)]

\* the contents of the state file at start: empty, a replication id later than
\* every row, the id of an operation that is no longer in the server's log, the
\* id of one that is, and contents the expression rejects
FileContents ==
    {<<>>, <<"2", "0", "0", "0">>, Hex(ObjectId(1, 0, 1)), Hex(ObjectId(2, 0, 2)),
     <<"z">>, <<"-", "1">>, <<"1", "\n">>,
     [i \in 1..14 |-> "1"], [i \in 1..24 |-> "A"], [i \in 1..23 |-> "a"]}

\* the StateFile option and the file when Process starts
StartFiles ==
    {[StateFile |-> FALSE, exists |-> FALSE, content |-> <<>>],
     [StateFile |-> TRUE, exists |-> FALSE, content |-> <<>>]}
    \cup {[StateFile |-> TRUE, exists |-> TRUE, content |-> content] :
             content \in FileContents}

\* the last ids a consumer of the model sends: the ones Process starts with, "0",
\* which the application sets, and the ids of the events of their streams
StartIds ==
    {<<"0">>} \cup {l.id : l \in {r \in {loadLastEventID(f.StateFile, f.exists, f.content) :
                                            f \in StartFiles} : ~r.err}}
SentIds ==
    StartIds \cup UNION {{ev.ID : ev \in Range(ServerStream(id))} : id \in StartIds}

\* ServerStream, computed once for the ids of SentIds
SentStreams == [id \in SentIds |-> ServerStream(id)]
StreamOf(id) == IF id \in SentIds THEN SentStreams[id] ELSE ServerStream(id)

\* InFlightEvents.Push
Push(ids, id) == IF id \in Range(ids) THEN ids ELSE Append(ids, id)

\* Pull that reports every id it finds as the first of the list
Pull_FoundIsFirst(ids, id) ==
    IF id \notin Range(ids)
    THEN [ids |-> ids, found |-> FALSE, first |-> FALSE]
    ELSE LET idx == CHOOSE i \in DOMAIN ids :
                      ids[i] = id /\ \A j \in 1..(i - 1) : ids[j] # id
         IN  [ids |-> SubSeq(ids, 1, idx - 1) \o SubSeq(ids, idx + 1, Len(ids)),
              found |-> TRUE,
              first |-> TRUE]

\* InFlightEvents.Pull
Pull(ids, id) ==
    IF id \notin Range(ids)
    THEN [ids |-> ids, found |-> FALSE, first |-> FALSE]
    ELSE LET idx == CHOOSE i \in DOMAIN ids :
                      ids[i] = id /\ \A j \in 1..(i - 1) : ids[j] # id
         IN  [ids |-> SubSeq(ids, 1, idx - 1) \o SubSeq(ids, idx + 1, Len(ids)),
              found |-> TRUE,
              first |-> idx = 1]

nonConVars == <<coreVars, udpVars, EventsIngested, syncVars, callVars, sinkVars, pureVars>>

\* Process, up to its select loop: load the last id and start the two tasks
ProcessStart ==
    /\ tasks.Process = "idle"
    /\ \E f \in StartFiles :
         LET l == loadLastEventID(f.StateFile, f.exists, f.content)
         IN  /\ appl' = [appl EXCEPT !.file = f.content, !.exists = f.exists]
             /\ IF l.err
                THEN \* errs <- err, received by the application; return
                     /\ consumer' = [consumer EXCEPT !.StateFile = f.StateFile]
                     /\ tasks' = [tasks EXCEPT !.Process = "failed"]
                ELSE /\ consumer' = [consumer EXCEPT !.lastId = l.id,
                                                     !.StateFile = f.StateFile]
                     /\ tasks' = [Process |-> "select",
                                  readStream |-> "connect",
                                  periodicStateSaving |->
                                      IF f.StateFile THEN "select" ELSE "off",
                                  lastId |-> <<>>]
    /\ UNCHANGED <<chans, conn, nonConVars>>

\* readStream: the first c.connect(), up to c.http.Do: the body is replaced by
\* the dummy empty body and the last id is read under the lock
ReadConnect ==
    /\ tasks.readStream = "connect"
    /\ consumer' = [consumer EXCEPT !.body = "dummy"]
    /\ conn' = [conn EXCEPT !.stream = <<>>, !.lastId = consumer.lastId]
    /\ tasks' = [tasks EXCEPT !.readStream = "http"]
    /\ UNCHANGED <<chans, appl, nonConVars>>

\* connect: c.http.Do returns and connect ends: c.body = res.Body for the
\* stream of the last id that was sent, or an error, which leaves the dummy
\* body; the error of the first connect is dropped, the one of a connect of
\* the backoff loop is sent on errs
ReadDo ==
    /\ tasks.readStream \in {"http", "rehttp"}
    /\ \/ /\ consumer' = [consumer EXCEPT !.body = "open"]
          /\ conn' = [conn EXCEPT !.stream = StreamOf(conn.lastId)]
          /\ tasks' = [tasks EXCEPT !.readStream = "next"]
       \/ /\ conn.errors < MaxConnErrors
          /\ consumer' = consumer
          /\ conn' = [conn EXCEPT !.errors = @ + 1]
          /\ tasks' = [tasks EXCEPT !.readStream =
                                      IF tasks.readStream = "http" THEN "next"
                                      ELSE "errs"]
    /\ UNCHANGED <<chans, appl, nonConVars>>

\* readStream: d.Next(&op) returns an event, or an error when the body is closed,
\* empty or the connection drops, then the first check of stop; the server is
\* silent once the application has received MaxEvents events
ReadNext ==
    /\ tasks.readStream = "next"
    /\ \/ /\ consumer.body = "open"
          /\ conn.stream # <<>>
          /\ Len(appl.got) < MaxEvents
          /\ conn' = [conn EXCEPT !.op = Head(conn.stream), !.stream = Tail(conn.stream),
                                  !.err = FALSE]
       \/ /\ consumer.body \in {"dummy", "closed"}
          /\ conn' = [conn EXCEPT !.err = TRUE]
       \/ /\ consumer.body = "open"
          /\ conn.errors < MaxConnErrors
          /\ conn' = [conn EXCEPT !.err = TRUE, !.errors = @ + 1]
    /\ IF chans.stopReadStream > 0
       THEN /\ chans' = [chans EXCEPT !.stopReadStream = 0]
            /\ tasks' = [tasks EXCEPT !.readStream = "done"]
       ELSE /\ chans' = chans
            /\ tasks' = [tasks EXCEPT !.readStream = IF conn'.err THEN "errs" ELSE "push"]
    /\ UNCHANGED <<consumer, appl, nonConVars>>

\* readStream: errs <- err, received by the application, after d.Next failed or
\* a connect of the backoff loop failed
ReadSendError ==
    /\ tasks.readStream = "errs"
    /\ tasks' = [tasks EXCEPT !.readStream = "backoff"]
    /\ UNCHANGED <<consumer, chans, conn, appl, nonConVars>>

\* readStream: time.Sleep(backoff) returns and c.connect() starts: the body is
\* closed and replaced by the dummy empty body and the last id is read under
\* the lock
ReadBackoff ==
    /\ tasks.readStream = "backoff"
    /\ consumer' = [consumer EXCEPT !.body = "dummy"]
    /\ conn' = [conn EXCEPT !.stream = <<>>, !.lastId = consumer.lastId]
    /\ tasks' = [tasks EXCEPT !.readStream = "rehttp"]
    /\ UNCHANGED <<chans, appl, nonConVars>>

\* readStream: c.ife.Push(op.ID), which waits for the mutex of ife
ReadPush ==
    /\ tasks.readStream = "push"
    /\ ~consumer.locked
    /\ consumer' = [consumer EXCEPT !.ife = Push(consumer.ife, conn.op.ID)]
    /\ tasks' = [tasks EXCEPT !.readStream = IF conn.op.Event = "reset" THEN "lock"
                                             ELSE "emit"]
    /\ UNCHANGED <<chans, conn, appl, nonConVars>>

\* readStream: c.ife.Lock() after a "reset" was pushed
ReadLock ==
    /\ tasks.readStream = "lock"
    /\ ~consumer.locked
    /\ consumer' = [consumer EXCEPT !.locked = TRUE]
    /\ tasks' = [tasks EXCEPT !.readStream = "emit"]
    /\ UNCHANGED <<chans, conn, appl, nonConVars>>

\* readStream: the second check of stop, else the task goes to ops <- op, a send
\* on an unbuffered channel
ReadEmit ==
    /\ tasks.readStream = "emit"
    /\ IF chans.stopReadStream > 0
       THEN /\ chans' = [chans EXCEPT !.stopReadStream = 0]
            /\ tasks' = [tasks EXCEPT !.readStream = "done"]
       ELSE /\ chans' = chans
            /\ tasks' = [tasks EXCEPT !.readStream = "send"]
    /\ UNCHANGED <<consumer, conn, appl, nonConVars>>

\* the application receives from ops: ops <- op returns in readStream
AppRecv ==
    /\ tasks.readStream = "send"
    /\ appl' = [appl EXCEPT !.got = Append(@, conn.op)]
    /\ tasks' = [tasks EXCEPT !.readStream = "next"]
    /\ UNCHANGED <<consumer, chans, conn, nonConVars>>

\* the application calls SetLastId("0") to force a full replication, as the
\* oplog-tail command does when a failed connect is reported as ErrResumeFailed
AppSetLastId ==
    /\ tasks.Process \in {"select", "pull", "set"}
    /\ conn.errors > 0
    /\ appl.stop = "no"
    /\ appl.sets < MaxSetLastId
    /\ consumer' = [consumer EXCEPT !.lastId = <<"0">>, !.saved = FALSE]
    /\ appl' = [appl EXCEPT !.sets = @ + 1]
    /\ UNCHANGED <<tasks, chans, conn, nonConVars>>

\* the application handles an event it received and sends it on ack, in any order
AppAck ==
    /\ \E i \in DOMAIN appl.got :
         /\ i \notin appl.acking \cup appl.acked
         /\ appl' = [appl EXCEPT !.acking = @ \cup {i}]
    /\ UNCHANGED <<consumer, tasks, chans, conn, nonConVars>>

\* the application sends true on stop
AppStop ==
    /\ tasks.Process # "idle"
    /\ appl.stop = "no"
    /\ appl' = [appl EXCEPT !.stop = "sending"]
    /\ UNCHANGED <<consumer, tasks, chans, conn, nonConVars>>

\* Process: case op := <-ack, with the Unlock of ife when op is a "reset";
\* Unlock of a mutex that is not locked is a fatal error
ProcAck ==
    /\ tasks.Process = "select"
    /\ \E i \in appl.acking :
         /\ appl' = [appl EXCEPT !.acking = @ \ {i}, !.acked = @ \cup {i}, !.ack = i]
         /\ IF appl.got[i].Event = "reset"
            THEN /\ consumer' = [consumer EXCEPT !.locked = FALSE]
                 /\ tasks' = [tasks EXCEPT !.Process = IF consumer.locked THEN "pull"
                                                       ELSE "fatal"]
            ELSE /\ consumer' = consumer
                 /\ tasks' = [tasks EXCEPT !.Process = "pull"]
    /\ UNCHANGED <<chans, conn, nonConVars>>

\* Process: c.ife.Pull(op.ID), which waits for the mutex of ife
ProcPull ==
    /\ tasks.Process = "pull"
    /\ ~consumer.locked
    /\ LET r == Pull(consumer.ife, appl.got[appl.ack].ID)
       IN  /\ consumer' = [consumer EXCEPT !.ife = r.ids]
           /\ tasks' = [tasks EXCEPT !.Process = IF r.found /\ r.first THEN "set"
                                                 ELSE "select"]
    /\ UNCHANGED <<chans, conn, appl, nonConVars>>

\* Process: c.SetLastId(op.ID) when Pull found the id first in the list
ProcSetLastId ==
    /\ tasks.Process = "set"
    /\ consumer' = [consumer EXCEPT !.lastId = appl.got[appl.ack].ID,
                                    !.saved = FALSE]
    /\ tasks' = [tasks EXCEPT !.Process = "select"]
    /\ UNCHANGED <<chans, conn, appl, nonConVars>>

\* Process: case <-stop: tell both tasks to stop and close the body. c.body is
\* read without synchronisation: nothing orders this read after the connect of
\* readStream until an event went through ops, so nil may still be seen
ProcStop ==
    /\ tasks.Process = "select"
    /\ appl.stop = "sending"
    /\ appl' = [appl EXCEPT !.stop = "sent"]
    /\ chans' = [chans EXCEPT !.stopReadStream = 1, !.stopStateSaving = 1]
    /\ \E body \in {consumer.body} \cup (IF appl.got = <<>> THEN {"nil"} ELSE {}) :
         consumer' = [consumer EXCEPT !.body = IF body = "open" THEN "closed" ELSE @]
    /\ tasks' = [tasks EXCEPT !.Process = "wait"]
    /\ UNCHANGED <<conn, nonConVars>>

\* Process: wg.Wait() returns and done <- true is received by the application
ProcDone ==
    /\ tasks.Process = "wait"
    /\ tasks.readStream = "done"
    /\ tasks.periodicStateSaving \in {"done", "off"}
    /\ chans' = [chans EXCEPT !.done = TRUE]
    /\ tasks' = [tasks EXCEPT !.Process = "done"]
    /\ UNCHANGED <<consumer, conn, appl, nonConVars>>

\* periodicStateSaving: a second went by: saved and lastId are read under the
\* read lock, and lastId is not saved
SaverRead ==
    /\ tasks.periodicStateSaving = "select"
    /\ ~consumer.saved
    /\ tasks' = [tasks EXCEPT !.periodicStateSaving = "save", !.lastId = consumer.lastId]
    /\ UNCHANGED <<consumer, chans, conn, appl, nonConVars>>

\* periodicStateSaving: saveLastEventID(lastId) writes the file
SaverSave ==
    /\ tasks.periodicStateSaving = "save"
    /\ appl' = [appl EXCEPT !.file = tasks.lastId, !.exists = TRUE]
    /\ tasks' = [tasks EXCEPT !.periodicStateSaving = "set"]
    /\ UNCHANGED <<consumer, chans, conn, nonConVars>>

\* periodicStateSaving: saveLastEventID(lastId) fails and the task goes to
\* errs <- ErrWritingState
SaverSaveError ==
    /\ tasks.periodicStateSaving = "save"
    /\ appl.ErrWritingState < MaxFileErrors
    /\ tasks' = [tasks EXCEPT !.periodicStateSaving = "errs"]
    /\ UNCHANGED <<consumer, chans, conn, appl, nonConVars>>

\* the application receives ErrWritingState: errs <- ErrWritingState returns
SaverSendError ==
    /\ tasks.periodicStateSaving = "errs"
    /\ appl' = [appl EXCEPT !.ErrWritingState = @ + 1]
    /\ tasks' = [tasks EXCEPT !.periodicStateSaving = "set"]
    /\ UNCHANGED <<consumer, chans, conn, nonConVars>>

\* periodicStateSaving: c.saved = lastId == c.lastId, under the lock
SaverSetSaved ==
    /\ tasks.periodicStateSaving = "set"
    /\ consumer' = [consumer EXCEPT !.saved = (tasks.lastId = consumer.lastId)]
    /\ tasks' = [tasks EXCEPT !.periodicStateSaving = "select"]
    /\ UNCHANGED <<chans, conn, appl, nonConVars>>

\* periodicStateSaving: case <-stop
SaverStop ==
    /\ tasks.periodicStateSaving = "select"
    /\ chans.stopStateSaving > 0
    /\ chans' = [chans EXCEPT !.stopStateSaving = 0]
    /\ tasks' = [tasks EXCEPT !.periodicStateSaving = "done"]
    /\ UNCHANGED <<consumer, conn, appl, nonConVars>>

\* the steps of each of the three tasks
readStream ==
    ReadConnect \/ ReadDo \/ ReadNext \/ ReadSendError \/ ReadBackoff \/ ReadPush
    \/ ReadLock \/ ReadEmit
Process ==
    ProcessStart \/ ProcAck \/ ProcPull \/ ProcSetLastId \/ ProcStop \/ ProcDone
periodicStateSaving ==
    SaverRead \/ SaverSave \/ SaverSendError \/ SaverSetSaved \/ SaverStop

NextConsumer ==
    \/ ProcessStart
    \/ ReadConnect
    \/ ReadDo
    \/ ReadNext
    \/ ReadSendError
    \/ ReadBackoff
    \/ ReadPush
    \/ ReadLock
    \/ ReadEmit
    \/ AppRecv
    \/ AppSetLastId
    \/ AppAck
    \/ AppStop
    \/ ProcAck
    \/ ProcPull
    \/ ProcSetLastId
    \/ ProcStop
    \/ ProcDone
    \/ SaverRead
    \/ SaverSave
    \/ SaverSaveError
    \/ SaverSendError
    \/ SaverSetSaved
    \/ SaverStop

\* each task that can take a step does take one, and the application receives
\* what is sent to it until it asks for the stop; acks, stop, SetLastId and
\* connection errors are free
SpecConsumer ==
    /\ Init
    /\ [][NextConsumer]_vars
    /\ WF_vars(readStream)
    /\ WF_vars(appl.stop = "no" /\ AppRecv)
    /\ WF_vars(Process)
    /\ WF_vars(periodicStateSaving)

(***************************************************************************)
(* Functions checked by themselves: each action draws the arguments of one *)
(* call from a bounded set and records them with the result in call.       *)
(***************************************************************************)
nonPureVars == <<coreVars, udpVars, EventsIngested, syncVars, callVars, conVars, sinkVars>>

\* the last ids a consumer connects with: none, replication ids, operation ids
ConnectIds ==
    {<<>>, <<"0">>, <<"1", "0", "0", "0">>, Hex(ObjectId(1, 0, 1)),
     Hex(ObjectId(2, 0, 3))}

\* the status codes of the responses
Statuses == {200, 400, 401, 403, 404, 406, 500, 503}

\* the responses to a request sent with this last id: the status and the
\* Last-Event-ID header, which is absent, the one of the request, or another
Responses(id) ==
    {[status |-> st, header |-> h] : st \in Statuses, h \in {<<>>, id, <<"9">>}}

\* Consumer.connect once c.http.Do returned a response: the error it returns
connect(id, res) ==
    IF id # <<>> /\ res.header # id THEN "ErrResumeFailed"
    ELSE IF res.status = 403 \/ res.status = 401 THEN "ErrAccessDenied"
    ELSE IF res.status # 200 THEN "HTTP error"
    ELSE ""

ConnectCall ==
    /\ \E id \in ConnectIds :
         \E res \in Responses(id) :
           call' = [f |-> "connect", lastId |-> id, res |-> res,
                    err |-> connect(id, res)]
    /\ UNCHANGED nonPureVars

NextConnect == ConnectCall

SpecConnect == Init /\ [][NextConnect]_vars

\* ---- OpLog.Diff ----
\* the keys (type/id) of the objects, in the order the scan of oplog_states
\* returns their rows
DiffKeys == <<"A", "B", "C">>

\* the timestamps of the snapshot and of the rows; time.Unix(0, 0) is 0
DiffTimes == 1..3

\* the createMap passed to Diff: the timestamp of each object of the snapshot
Snapshots ==
    UNION {[S -> DiffTimes] : S \in SUBSET Range(DiffKeys)}

\* the oplog_states collection: one row per object id, with the event Append
\* stored ("insert" or "delete") and data.timestamp
StateRows ==
    UNION {[S -> [Event : {"insert", "delete"}, Timestamp : DiffTimes]] :
             S \in SUBSET Range(DiffKeys)}

\* the snapshot and the states of scenario S6 of the specification
S6Keys == <<"A", "B", "C", "D">>
S6Snapshot == ("A" :> 10) @@ ("B" :> 20)
S6States ==
    ("A" :> [Event |-> "insert", Timestamp |-> 15])
    @@ ("C" :> [Event |-> "insert", Timestamp |-> 5])
    @@ ("D" :> [Event |-> "delete", Timestamp |-> 8])

\* delete(m, id)
MapDelete(m, id) == [k \in (DOMAIN m) \ {id} |-> m[k]]

\* m[id] = v
MapSet(m, id, v) == [k \in (DOMAIN m) \cup {id} |-> IF k = id THEN v ELSE m[k]]

\* the most recent timestamp of the createMap
DumpTime(createMap) ==
    LET later(t) == \A k \in DOMAIN createMap : createMap[k] <= t
    IN  IF DOMAIN createMap = {} THEN 0
        ELSE CHOOSE t \in {createMap[k] : k \in DOMAIN createMap} : later(t)

\* the event of a states row that Diff takes for a deleted object
DiffDeletedEvent == "deleted"

\* Diff that puts in the updateMap every object found on both sides
DiffRow_UpdateAll(m, id, obs, dumpTime) ==
    IF id \in DOMAIN m.createMap
    THEN [m EXCEPT !.updateMap = MapSet(@, id, m.createMap[id])]
    ELSE m

\* the body of the loop of Diff for one row obs of oplog_states
DiffRow(m, id, obs, dumpTime) ==
    IF obs.Event = DiffDeletedEvent
    THEN IF id \in DOMAIN m.createMap /\ m.createMap[id] < obs.Timestamp
         THEN [m EXCEPT !.createMap = MapDelete(@, id)]
         ELSE m
    ELSE IF id \in DOMAIN m.createMap
         THEN [m EXCEPT !.createMap = MapDelete(@, id),
                        !.updateMap = IF obs.Timestamp < m.createMap[id]
                                      THEN MapSet(@, id, m.createMap[id])
                                      ELSE @]
         ELSE IF obs.Timestamp < dumpTime
              THEN [m EXCEPT !.deleteMap = MapSet(@, id, obs.Timestamp)]
              ELSE m

\* Diff: the three maps after the scan has returned n rows of the collection;
\* the updateMap and the deleteMap enter empty
RECURSIVE DiffScan(_, _, _, _, _)
DiffScan(m, keys, rows, dumpTime, n) ==
    IF n = 0 \/ keys = <<>> THEN m
    ELSE DiffScan(DiffRow(m, Head(keys), rows[Head(keys)], dumpTime),
                  Tail(keys), rows, dumpTime, n - 1)

Diff(snapshot, keys, rows, n) ==
    DiffScan([createMap |-> snapshot, updateMap |-> << >>, deleteMap |-> << >>],
             keys, rows, DumpTime(snapshot), n)

\* one call of Diff: the scan returns every row, or fails after n of them
\* (iter.Err), and then Diff returns the error
DiffCallOn(allKeys, snapshot, rows) ==
    LET keys == SelectSeq(allKeys, LAMBDA k : k \in DOMAIN rows)
    IN  \E n \in 0..Len(keys) :
          call' = [f |-> "Diff", snapshot |-> snapshot, states |-> rows,
                   err |-> n < Len(keys), m |-> Diff(snapshot, keys, rows, n)]

DiffCall ==
    /\ call = NoCall
    /\ \/ \E snapshot \in Snapshots : \E rows \in StateRows :
            DiffCallOn(DiffKeys, snapshot, rows)
       \/ DiffCallOn(S6Keys, S6Snapshot, S6States)
    /\ UNCHANGED nonPureVars

\* the event Append stores in oplog_states for an operation
StateEvent(event) == IF event = "update" THEN "insert" ELSE event

\* oplog_states after the sync command has appended the operations of the three
\* maps: the entries of the createMap and of the updateMap carry the data of the
\* snapshot, those of the deleteMap the data of the row
SyncStates(rows, m) ==
    [k \in DOMAIN rows \cup DOMAIN m.createMap |->
       IF k \in DOMAIN m.deleteMap
         THEN [Event |-> StateEvent("delete"), Timestamp |-> m.deleteMap[k]]
       ELSE IF k \in DOMAIN m.updateMap
         THEN [Event |-> StateEvent("update"), Timestamp |-> m.updateMap[k]]
       ELSE IF k \in DOMAIN m.createMap
         THEN [Event |-> StateEvent(SyncCreateEvent), Timestamp |-> m.createMap[k]]
       ELSE rows[k]]

\* the sync command after a Diff that returned no error: the operations are
\* appended, and the command is run again with the same snapshot
SyncAgainCall ==
    /\ call.f = "Diff"
    /\ ~call.err
    /\ LET rows == SyncStates(call.states, call.m)
           allKeys == IF DOMAIN call.states \subseteq Range(DiffKeys)
                      THEN DiffKeys ELSE S6Keys
           keys == SelectSeq(allKeys, LAMBDA k : k \in DOMAIN rows)
       IN  call' = [f |-> "DiffAgain", snapshot |-> call.snapshot, first |-> call.m,
                    states |-> rows,
                    m |-> Diff(call.snapshot, keys, rows, Len(keys))]
    /\ UNCHANGED nonPureVars

NextDiff == DiffCall \/ SyncAgainCall

SpecDiff == Init /\ [][NextDiff]_vars

\* ---- NewLastId and Fallback ----
\* the characters of the short strings given to NewLastId
LastIdChars == {"0", "1", "-", "+", "a", "A"}

MaxIdLen == 3

\* a string of 24 characters: zeros but for the 8th and the last character
Hex24(c8, c24) ==
    [i \in 1..24 |-> IF i = 8 THEN c8 ELSE IF i = 24 THEN c24 ELSE "0"]

\* the strings given to NewLastId: every short string, strings of 13 and 14
\* digits, and strings of 23, 24 and 25 characters in hexadecimal or not
LastIdStrings ==
    UNION {[1..n -> LastIdChars] : n \in 0..MaxIdLen}
    \cup {[i \in 1..13 |-> IF i = 10 THEN "1" ELSE "0"],
          [i \in 1..14 |-> IF i = 11 THEN "1" ELSE "0"],
          [i \in 1..13 |-> IF i = 1 THEN "-" ELSE IF i = 13 THEN "1" ELSE "0"],
          Hex(ObjectId(1, 0, 1)), Hex24("a", "c"), Hex24("A", "C"), Hex24("A", "c"),
          Hex24("g", "0"), Hex24("-", "0"),
          [i \in 1..23 |-> "0"], [i \in 1..25 |-> "0"]}

\* NewLastId(s)
NewLastIdCall ==
    /\ \E s \in LastIdStrings :
         call' = [f |-> "NewLastId", s |-> s, r |-> NewLastId(s)]
    /\ UNCHANGED nonPureVars

\* the seconds embedded in the operation ids
FallbackSecs == {0, 1, 2, 1423997}

\* the operation ids Fallback is called on: ids assigned by the store, and ids
\* that NewLastId built from a string
FallbackIds ==
    {OperationLastId(ObjectId(sec, mid, ctr)) :
       sec \in FallbackSecs, mid \in {0, 1}, ctr \in {0, 1}}
    \cup {NewLastId(s).id : s \in {t \in LastIdStrings : parseObjectId(t).ok}}

\* o.Fallback()
FallbackCall ==
    /\ \E o \in FallbackIds :
         call' = [f |-> "Fallback", o |-> o, r |-> Fallback(o)]
    /\ UNCHANGED nonPureVars

NextLastId == NewLastIdCall \/ FallbackCall

SpecLastId == Init /\ [][NextLastId]_vars

\* ---- Consumer.readStream: the delays of the reconnect loop ----
\* the bounds of the check: failed attempts in one loop, and loops
MaxAttempts == 8
MaxLoops == 3

\* backoff := time.Second, and the limit the loop compares backoff with, in seconds
BackoffFirst == 1
BackoffLimit == 30

\* if backoff < 30*time.Second { backoff *= 2 }
NextBackoff(backoff) ==
    IF backoff < BackoffLimit THEN backoff * 2 ELSE backoff

\* the last ids of the consumer while it reconnects
StreamIds == {<<>>, <<"0">>}

\* the errors connect returns: the ones of a response, or the one of c.http.Do
ConnectErrors(id) ==
    ({connect(id, res) : res \in Responses(id)} \ {""}) \cup {"transport error"}

\* readStream starts: the first connect, whose error is dropped, then the decoder
StreamStart ==
    /\ call = NoCall
    /\ \E id \in StreamIds :
         call' = [f |-> "readStream", pc |-> "next", lastId |-> id, backoff |-> 0,
                  delays |-> <<>>, loops |-> 0, err |-> ""]
    /\ UNCHANGED nonPureVars

\* d.Next returns an error: errs <- err and the reconnect loop starts
StreamError ==
    /\ call.f = "readStream"
    /\ call.pc = "next"
    /\ call.loops < MaxLoops
    /\ call' = [call EXCEPT !.pc = "sleep", !.backoff = BackoffFirst,
                            !.delays = <<>>, !.loops = @ + 1,
                            !.err = "ErrConnectionClosed"]
    /\ UNCHANGED nonPureVars

\* one round of the loop: time.Sleep(backoff), connect fails, errs <- err, and
\* the next delay
ReconnectFail ==
    /\ call.f = "readStream"
    /\ call.pc = "sleep"
    /\ Len(call.delays) < MaxAttempts
    /\ \E e \in ConnectErrors(call.lastId) :
         call' = [call EXCEPT !.delays = Append(@, call.backoff),
                              !.backoff = NextBackoff(call.backoff),
                              !.err = e]
    /\ UNCHANGED nonPureVars

\* the last round of the loop: time.Sleep(backoff), connect succeeds
ReconnectOk ==
    /\ call.f = "readStream"
    /\ call.pc = "sleep"
    /\ \E res \in Responses(call.lastId) : connect(call.lastId, res) = ""
    /\ call' = [call EXCEPT !.delays = Append(@, call.backoff), !.pc = "next",
                            !.err = ""]
    /\ UNCHANGED nonPureVars

NextBackoffLoop == StreamStart \/ StreamError \/ ReconnectFail \/ ReconnectOk

SpecBackoff == Init /\ [][NextBackoffLoop]_vars

\* ---- Decoder.Next ----
\* the bound of the check: the lines of a stream
MaxLines == 4

\* the lines of a stream, without their "\n": the fields of an event, a data
\* field that is not JSON, an event field without a value, a comment, and the
\* empty line that closes a message
IdLine == <<"i", "d", ":", " ", "1">>
EventLine == <<"e", "v", "e", "n", "t", ":", " ", "x">>
NoEventLine == <<"e", "v", "e", "n", "t", ":">>
DataLine == <<"d", "a", "t", "a", ":", " ", "{", "}">>
BadDataLine == <<"d", "a", "t", "a", ":", " ", "{">>
CommentLine == <<":", "c">>
BlankLine == <<>>

StreamLines ==
    {IdLine, EventLine, NoEventLine, DataLine, BadDataLine, CommentLine, BlankLine}

\* the streams the decoder reads: lines, then the end of the stream
Streams == UNION {[1..n -> StreamLines] : n \in 0..MaxLines}

\* the ids the operation passed to Next holds from the call before
DecoderIds == {<<>>, <<"7">>}

\* strings.SplitN(line, ":", 2): the place of the first colon, 0 without one
Colon(line) ==
    LET S == {i \in DOMAIN line : line[i] = ":"}
    IN  IF S = {} THEN 0 ELSE CHOOSE i \in S : \A j \in S : i <= j

LineField(line) ==
    IF Colon(line) = 0 THEN line ELSE SubSeq(line, 1, Colon(line) - 1)

\* sections[1] without one leading space; "" when the line has no colon
LineValue(line) ==
    IF Colon(line) = 0 THEN <<>>
    ELSE LET v == SubSeq(line, Colon(line) + 1, Len(line))
         IN  IF v # <<>> /\ v[1] = " " THEN Tail(v) ELSE v

\* json.Unmarshal accepts the value
ValidJSON(v) == v = <<"{", "}">>

\* the body of the loop for a line that is not empty: the operation and err
\* after it. The break of the data case leaves the switch, not the loop.
DecodeLine(op, line) ==
    IF line[1] = ":" THEN [op |-> op, err |-> ""]
    ELSE IF LineField(line) = <<"i", "d">>
      THEN [op |-> [op EXCEPT !.ID = LineValue(line)], err |-> ""]
    ELSE IF LineField(line) = <<"e", "v", "e", "n", "t">>
      THEN [op |-> [op EXCEPT !.Event = LineValue(line)], err |-> ""]
    ELSE IF LineField(line) = <<"d", "a", "t", "a">>
      THEN IF ValidJSON(LineValue(line))
           THEN [op |-> [op EXCEPT !.Data = LineValue(line)], err |-> ""]
           ELSE [op |-> op, err |-> "ErrInvalidEvent"]
    ELSE [op |-> op, err |-> ""]

\* the statement after the loop
AfterLoop(op, err) ==
    IF err = "" /\ op.Event = <<>> THEN "ErrIncompleteEvent" ELSE err

\* Decoder.Next(op) on a stream: the operation, the error returned and the
\* number of lines read. ReadString assigns err at each line; an empty line
\* returns from inside the loop, the end of the stream breaks out of it.
DecoderNext(op0, stream) ==
    LET F[i \in 0..(Len(stream) + 1)] ==
          IF i = 0
            THEN [op |-> [op0 EXCEPT !.Event = <<>>, !.Data = <<>>], err |-> "",
                  done |-> FALSE, n |-> 0]
          ELSE IF F[i - 1].done THEN F[i - 1]
          ELSE IF i > Len(stream)
            THEN [op |-> F[i - 1].op,
                  err |-> AfterLoop(F[i - 1].op, "ErrConnectionClosed"),
                  done |-> TRUE, n |-> i - 1]
          ELSE IF stream[i] = BlankLine
            THEN [op |-> F[i - 1].op, err |-> "", done |-> TRUE, n |-> i]
          ELSE LET r == DecodeLine(F[i - 1].op, stream[i])
               IN  [op |-> r.op, err |-> r.err, done |-> FALSE, n |-> i]
    IN  F[Len(stream) + 1]

DecoderCall ==
    /\ call = NoCall
    /\ \E id \in DecoderIds :
         \E stream \in Streams :
           LET r == DecoderNext([ID |-> id, Event |-> <<>>, Data |-> <<>>], stream)
           IN  call' = [f |-> "Next", stream |-> stream, op |-> r.op,
                        err |-> r.err, n |-> r.n]
    /\ UNCHANGED nonPureVars

NextDecoder == DecoderCall

SpecDecoder == Init /\ [][NextDecoder]_vars

(***************************************************************************)
(* Properties.                                                             *)
(***************************************************************************)
IsOp(e) == e.kind = "op"
IsRow(e) == e.kind = "state"
IsLive(e) == e.kind = "event" /\ e.Event = "live"
IsReset(e) == e.kind = "event" /\ e.Event = "reset"

\* Tail was called and is past the send of "reset", if it had one to send
Started == pc \notin {"init", "closed", "reset"}

LiveIdx == {i \in DOMAIN out : IsLive(out[i])}
ResetIdx == {i \in DOMAIN out : IsReset(out[i])}

\* the tail has switched to live after a replication, has sent every operation its
\* cursor selects, and no append is in progress
CaughtUp ==
    /\ startId.kind = "repl"
    /\ liveFrom # NilId
    /\ pc = "live"
    /\ LivePending(cursor) = {}
    /\ NoAppend

\* C1: once a tail started with a replication id has switched to live and caught up,
\* every object flagged insert whose states row passes the filter and lies after the
\* upper limit of the window (ts > Time() of the captured fallback id) has been sent
\* as a stored operation
C1_RowsAfterWindowSentLive ==
    CaughtUp =>
      \A k \in DOMAIN states :
        ( /\ FilterApply(filter, states[k].Data)
          /\ states[k].Event = "insert"
          /\ states[k].Timestamp >= startId.int64
          /\ states[k].Timestamp > IdTime(liveFrom) )
        => \E i \in DOMAIN out : IsOp(out[i]) /\ GetId(out[i].Data) = k

\* the request carried the id of an operation that was found in the log
Resumed == Started /\ resp.status = 200 /\ resp.echo /\ startId.kind = "op"

\* the operations that are after the operation of id e in the log and pass the
\* filter, in log order
OpsAfter(e) ==
    LET at == CHOOSE i \in DOMAIN ops : ops[i].Id = e
        Sel(o) == FilterApply(filter, o.Data)
    IN  SelectSeq(SubSeq(ops, at + 1, Len(ops)), Sel)

\* C2: a request resuming at Last-Event-ID = e1.id, e1 being in the capped log, is
\* sent the operations after e1 in the log that pass the filter, in log order, from
\* the first one on: e1 is not sent again, no operation before e1 is sent and none
\* after it is skipped
C2_ResumeAfterLastEventId ==
    (Resumed /\ HasId(startId)) =>
      /\ Len(out) <= Len(OpsAfter(startId.ObjectId))
      /\ \A i \in DOMAIN out : out[i] = OpsAfter(startId.ObjectId)[i]

\* C3: in one replication pass (no store error), no states row is sent twice
C3_RowSentOncePerPass ==
    \A i, j \in DOMAIN out :
      (i < j /\ IsRow(out[i]) /\ IsRow(out[j]) /\ hist[i].pass = hist[j].pass)
        => out[i] # out[j]

\* C4: a tail sends at most one "live" event, and exactly one once it tails live
\* after a replication; every event after it is a stored operation whose id is
\* greater than the fallback id captured for the replication; after it the tail is
\* never in replication again
C4_OneLiveThenOpsAfterFallbackId ==
    /\ Cardinality(LiveIdx) <= 1
    /\ (pass > 0 /\ pc = "live") => Cardinality(LiveIdx) = 1
    /\ \A i \in LiveIdx : \A j \in DOMAIN out :
         j > i => /\ IsOp(out[j])
                  /\ liveFrom # NilId
                  /\ OidGT(out[j].Id, liveFrom.ObjectId)
    /\ LiveIdx # {} =>
         lastId.kind # "repl" /\ pc \notin {"page", "iter", "rowsend", "livesend"}

C4_Witness ==
    /\ Len(out) >= 3
    /\ IsRow(out[Len(out) - 2])
    /\ IsLive(out[Len(out) - 1])
    /\ IsOp(out[Len(out)])
    /\ Len(ops) = 2

\* C5: no row sent in a replication pass is newer than the capture of the fallback
\* id of the pass: its timestamp is no greater than Time() of the id, and it was not
\* written after the capture
C5_NoRowNewerThanCapture ==
    \A i \in DOMAIN out :
      IsRow(out[i]) =>
        /\ hist[i].fid # NilId => out[i].Timestamp <= IdTime(hist[i].fid)
        /\ out[i].Timestamp <= hist[i].at

\* C6: of two operations sent one after the other the second has the greater id; of
\* two rows sent one after the other the second has the greater timestamp
C6_StrictlyIncreasingInBothModes ==
    \A i \in DOMAIN out :
      i < Len(out) =>
        /\ (IsOp(out[i]) /\ IsOp(out[i + 1])) => OidGT(out[i + 1].Id, out[i].Id)
        /\ (IsRow(out[i]) /\ IsRow(out[i + 1]))
             => out[i].Timestamp < out[i + 1].Timestamp

\* C7: a tail started with ReplicationLastId{0} on an empty database, with no store
\* error and nothing appended, sends "reset" (id "1") then "live" (id "") and does
\* not fail
C7_ResetOnZeroThenLiveThenIdle ==
    ( /\ Started
      /\ startId = ReplicationLastId(0, FALSE)
      /\ startEmpty
      /\ ops = <<>>
      /\ errs = 0 )
    => /\ pc # "panic"
       /\ out \in { <<OpLogEvent(<<"1">>, "reset")>>,
                    <<OpLogEvent(<<"1">>, "reset"), OpLogEvent(<<>>, "live")>> }

\* C8: a tail started with a nil last id sends neither "reset" nor "live" nor rows
\* and does not reach the invalid last id failure
C8_NilLastIdTailsLive ==
    (Started /\ startId = NilId) =>
      /\ pc # "panic"
      /\ \A i \in DOMAIN out : IsOp(out[i])

\* C9 (as amended): "reset" with id "1" is sent once, first, when the tail is started
\* with a replication id whose value is 0, in fallback mode or not, also after a
\* retry; with any other last id it is not sent
C9_ResetIffReplicationIdZero ==
    Started =>
      IF startId.kind = "repl" /\ startId.int64 = 0
      THEN ResetIdx = {1} /\ out[1] = OpLogEvent(<<"1">>, "reset")
      ELSE ResetIdx = {}

C9_Witness ==
    /\ startId = ReplicationLastId(0, FALSE)
    /\ errs = 1
    /\ pass = 2
    /\ Len(out) >= 3
    /\ ResetIdx = {1}

\* C9 (as claimed): "reset" is sent if and only if the tail is started with the
\* replication id 0, and not when it is started with a fallback id
C9_ResetOnlyWithoutFallback ==
    Started => (ResetIdx # {} <=> startId = ReplicationLastId(0, FALSE))

\* C10: a row sent while the last id is not in fallback mode is an insert; when the
\* last id is in fallback mode the page query leaves out no delete row of the window
C10_DeletesOnlyInFallbackMode ==
    /\ \A i \in DOMAIN out : (IsRow(out[i]) /\ ~hist[i].fb) => out[i].Event = "insert"
    /\ (pc = "iter" /\ lastId.kind = "repl" /\ lastId.fallbackMode) => skipped = {}

C10_Witness ==
    \E i, j \in DOMAIN out :
      /\ IsRow(out[i]) /\ hist[i].fb /\ out[i].Event = "delete"
      /\ IsRow(out[j]) /\ hist[j].fb /\ out[j].Event = "insert"

\* C11: a request whose Last-Event-ID is the id of an operation that is not in the
\* log starts the tail with the replication id of the time of that id, in fallback
\* mode, and the response does not carry the header; a request whose id is found, or
\* is a replication id, starts the tail with that id and the response carries the
\* header
C11_HeaderNotEchoedOnFallback ==
    (Started /\ resp.status = 200 /\ resp.header # <<>>) =>
      LET id == NewLastId(resp.header).id
      IN  IF id.kind = "op" /\ startId.kind = "repl"
          THEN /\ startId = ReplicationLastId(ObjectIdTime(id.ObjectId), TRUE)
               /\ ~resp.echo
          ELSE /\ startId = id
               /\ resp.echo

\* every operation the reader accepted is in the queue, in the hands of the appender
\* or inserted, and none is inserted twice: the documents inserted are never more
\* than the operations taken from the queue, they are as many once the Insert of
\* the appender has returned, and the log holds the last of them, one document
\* each, in the order of acceptance
ExactlyOnce ==
    /\ EventsReceived = Len(accepted) + (IF udp.pc = "send" THEN 1 ELSE 0)
    /\ Inserted <= Len(accepted) - Len(queue)
    /\ app.pc # "inserting" => Inserted = Len(accepted) - Len(queue)
    /\ Len(ops) = IF Inserted < CapSize THEN Inserted ELSE CapSize
    /\ \A i \in DOMAIN ops :
         /\ Natural(i) \in DOMAIN accepted
         /\ ops[i].Event = accepted[Natural(i)].Event
         /\ ops[i].Data = accepted[Natural(i)].Data

\* C12: every operation received over UDP and put on the queue is inserted in the log
\* once and only once, also when store writes fail before they succeed, and in the
\* end its Append has written its row and returned
C12_UdpOperationsAppendedExactlyOnce ==
    /\ []ExactlyOnce
    /\ \A k \in 1..MaxDgrams :
         (Len(accepted) >= k) ~> (Inserted >= k /\ Len(applied) >= k /\ EventsIngested >= k)

\* the reader drops the datagram it reads while the queue is full
DropWhenFull ==
    (nDgrams' = nDgrams + 1 /\ Len(queue) >= QueueMaxSize)
      => /\ EventsDiscarded' = EventsDiscarded + 1
         /\ UNCHANGED <<queue, udp, accepted, EventsReceived>>

\* C13: the queue never holds more than queueMaxSize operations, the reader only
\* reaches the send on the queue when there is room, whatever the appender does in
\* between, and a datagram read while the queue is full is dropped and counted
C13_ReaderNeverBlocks ==
    /\ [](Len(queue) <= QueueMaxSize)
    /\ [](udp.pc = "send" => Len(queue) < QueueMaxSize)
    /\ [][DropWhenFull]_vars

C13_Witness ==
    /\ udp.pc = "send"
    /\ queue = <<>>
    /\ app.pc = "inserting"
    /\ EventsDiscarded >= 1

\* the operation as the reader queued it, before the store gave it an id
Queued(op) == [kind |-> "op", Event |-> op.Event, Data |-> op.Data]

\* the operations applied on a key so far, by their place in the history of the
\* writes on the states, and the last one
AppliedOn(k) == {i \in DOMAIN applied : GetId(applied[i].Data) = k}
LastApplied(k) == applied[CHOOSE i \in AppliedOn(k) : \A j \in AppliedOn(k) : j <= i]

\* C14: the states collection holds a row for a key if and only if an operation was
\* applied on it; the event of the row is delete if the last operation applied on the
\* key is a delete and insert otherwise, and its data is the data of that operation;
\* the operations applied are operations the reader accepted
C14_StateRowIsLastAppliedOperation ==
    /\ \A k \in DOMAIN states : AppliedOn(k) # {}
    /\ \A i \in DOMAIN applied :
         LET k == GetId(applied[i].Data)
         IN  /\ k \in DOMAIN states
             /\ states[k].Id = k
             /\ states[k].Event =
                  (IF LastApplied(k).Event = "delete" THEN "delete" ELSE "insert")
             /\ states[k].Data = LastApplied(k).Data
             /\ Queued(applied[i]) \in Range(accepted)

C14_Witness ==
    /\ EventsIngested = 4
    /\ [i \in DOMAIN applied |-> applied[i].Event]
         = <<"insert", "update", "update", "delete">>
    /\ \A i \in DOMAIN applied : GetId(applied[i].Data) = <<"a", "/", "1">>
    /\ states[<<"a", "/", "1">>].Event = "delete"
    /\ states[<<"a", "/", "1">>].Data.Timestamp = 904

\* C15: every operation of the log has a valid event, a type, an id and no empty
\* parent, and every row of the states has the event insert or delete, a type, an id
\* and no empty parent
C15_StoredOperationsAreValid ==
    /\ \A i \in DOMAIN ops : Validate(ops[i])
    /\ \A k \in DOMAIN states :
         /\ states[k].Event \in {"insert", "delete"}
         /\ Validate([Event |-> "insert", Data |-> states[k].Data])

\* C16: the ids of the operations of the log are strictly increasing in the order of
\* the log, so that the query of a live tail placed on any operation of the log
\* selects every operation after it
C16_IdsIncreaseInLogOrder ==
    \A i, j \in DOMAIN ops :
      i < j => /\ OidGT(ops[j].Id, ops[i].Id)
               /\ LiveMatch([hasGt |-> TRUE, gt |-> ops[i].Id, pos |-> 0], ops[j])

\* the events the application received and has not sent on ack, in none of the
\* copies it received when a reconnection made the server send them again
Unacked ==
    {i \in DOMAIN appl.got :
       \A k \in DOMAIN appl.got :
         appl.got[k] = appl.got[i] => k \notin appl.acking \cup appl.acked}

\* the acked event Process is handling advances lastId: SetLastId is called
Advances ==
    /\ tasks.Process = "set"
    /\ tasks'.Process = "select"

\* C17: when the ack of an event advances the consumer's last id to the id of that
\* event, every event the application received before it has been acked
C17_LastIdNeverPassesUnackedEvent ==
    [][Advances => \A j \in 1..(appl.ack - 1) : j \notin Unacked]_vars

\* Process has called Pull for the acked event
Pulled == tasks.Process = "pull" /\ tasks'.Process # "pull"

\* Process has called SetLastId for the acked event
LastIdSet == tasks.Process = "set" /\ tasks'.Process = "select"

\* C18: the ack of the id at the head of the in-flight list removes it and sets the
\* last id to it (Pull, then SetLastId); the ack of an id further in the list
\* removes it and leaves the last id as it was; the ack of an id that is not in
\* the list changes neither; Process changes the last id in no other step
C18_OnlyAckOfHeadAdvancesLastId ==
    [][LET id == appl.got[appl.ack].ID
           ids == consumer.ife
       IN  /\ Pulled =>
                /\ (ids # <<>> /\ ids[1] = id) =>
                      /\ consumer'.ife = Tail(ids)
                      /\ tasks'.Process = "set"
                /\ (id \in Range(ids) /\ ids[1] # id) =>
                      /\ Len(consumer'.ife) = Len(ids) - 1
                      /\ Range(consumer'.ife) = Range(ids) \ {id}
                      /\ consumer'.ife[1] = ids[1]
                      /\ consumer'.lastId = consumer.lastId
                      /\ tasks'.Process = "select"
                /\ id \notin Range(ids) =>
                      /\ consumer'.ife = ids
                      /\ consumer'.lastId = consumer.lastId
                      /\ tasks'.Process = "select"
           /\ LastIdSet => consumer'.lastId = id /\ consumer'.ife = ids
           /\ (tasks.Process = "select" /\ tasks'.Process = "select") =>
                (consumer'.lastId = consumer.lastId \/ appl'.sets > appl.sets)]_vars

\* after Push("1000"), Push("1001") and Pull("1001") the last id is still the id
\* of the "reset" acked before
C18_Witness ==
    /\ tasks.Process = "select"
    /\ Len(appl.got) >= 3
    /\ appl.got[2].ID = <<"1", "0", "0", "0">>
    /\ appl.got[3].ID = <<"1", "0", "0", "1">>
    /\ appl.acked = {1, 3}
    /\ consumer.ife = << <<"1", "0", "0", "0">> >>
    /\ consumer.lastId = <<"1">>

\* the application received a new event
Emitted == Len(appl'.got) > Len(appl.got)

\* the "reset" events the application received
Resets == {i \in DOMAIN appl.got : appl.got[i].Event = "reset"}

\* the last event the application received is a "reset" it has sent on ack
LastIsAckedReset ==
    /\ Len(appl.got) \in Resets
    /\ Len(appl.got) \in appl.acking \cup appl.acked

\* that, and the next event of the stream is decoded, and stop was not requested
ResetAcked ==
    /\ LastIsAckedReset
    /\ tasks.readStream = "push"
    /\ appl.stop = "no"

\* C19: no event is emitted while a "reset" emitted before has not been acked by
\* the application, and once the application has acked the "reset" the next event
\* of the stream is emitted (unless stop is requested): the last event received
\* is then one that is not acked yet
C19_EmissionPausedUntilResetAcked ==
    /\ [][Emitted => Resets \subseteq appl.acking \cup appl.acked]_vars
    /\ ResetAcked ~> (~LastIsAckedReset \/ appl.stop # "no")

\* the pause alone: no event is emitted while a "reset" emitted before has not
\* been taken from ack by Process
C19_NoEmissionBeforeResetAcked ==
    [][Emitted => Resets \subseteq appl.acked]_vars

\* readStream and periodicStateSaving have returned and done was signalled
Terminated ==
    /\ tasks.readStream = "done"
    /\ tasks.periodicStateSaving \in {"done", "off"}
    /\ chans.done

\* C20: once Process has taken stop, the stream reader and the state saver return
\* and done is signalled
C20_StopTerminatesBothTasks == (appl.stop = "sent") ~> Terminated

\* Tail has returned: the goroutine returned (or panicked) after done was set
TailReturned == pc \in {"returned", "panic"}

\* C21: once stop has fired, the iterator goroutine returns, unless the bound on
\* the number of events of a behaviour is what holds it
C21_StopTerminatesTail == done ~> (TailReturned \/ Len(out) >= MaxOut)

\* C22: the consumer considers its last id saved only when the state file holds it:
\* after a failed write the last id stays unsaved, so that it is written again
C22_SavedOnlyAfterSuccessfulWrite == consumer.saved => appl.file = consumer.lastId

\* C23: connect returns ErrAccessDenied for every response with status 401 or 403,
\* whatever last id was sent, and a plain HTTP error for another status but 200
C23_AccessDeniedOn401And403 ==
    call.f = "connect" =>
      /\ call.res.status \in {401, 403} => call.err = "ErrAccessDenied"
      /\ call.res.status \notin {200, 401, 403} => call.err = "HTTP error"

\* Process has started its two tasks (the saver only with a state file)
TasksStarted ==
    /\ tasks.Process = "select"
    /\ tasks.readStream = "connect"
    /\ tasks.periodicStateSaving = IF consumer.StateFile THEN "select" ELSE "off"

\* Process has returned on the error of loadLastEventID: no task runs, no
\* connection was opened and the application got no operation
StartFailed ==
    /\ tasks.Process = "failed"
    /\ tasks.readStream = "idle"
    /\ tasks.periodicStateSaving = "idle"
    /\ consumer.body = "nil"
    /\ conn = NoConn
    /\ appl.got = <<>>

\* C24: at start last_id is "" without a state file option, "0" when the file
\* does not exist and the content of the file when it matches the expression;
\* when it does not match Process starts no task, opens no connection and
\* emits no operation, then or later
C24_StartLastIdFromStateFile ==
    [][/\ (tasks.Process = "idle" /\ tasks'.Process # "idle") =>
            /\ ~consumer'.StateFile =>
                  TasksStarted' /\ consumer'.lastId = <<>>
            /\ (consumer'.StateFile /\ ~appl'.exists) =>
                  TasksStarted' /\ consumer'.lastId = <<"0">>
            /\ (consumer'.StateFile /\ appl'.exists /\ MatchStateFile(appl'.file)) =>
                  TasksStarted' /\ consumer'.lastId = appl'.file
            /\ (consumer'.StateFile /\ appl'.exists /\ ~MatchStateFile(appl'.file)) =>
                  StartFailed'
       /\ (tasks.Process = "failed" => StartFailed')]_vars

C24_Witness ==
    /\ StartFailed
    /\ appl.exists
    /\ appl.file = [i \in 1..24 |-> "A"]
    /\ appl.stop = "sending"

\* Diff has returned without error
DiffReturned == call.f = "Diff" /\ ~call.err

\* the object is in the snapshot and its states row is an insert of the same date
DiffIdentical(k) ==
    /\ k \in DOMAIN call.snapshot
    /\ k \in DOMAIN call.states
    /\ call.states[k].Event = "insert"
    /\ call.states[k].Timestamp = call.snapshot[k]

\* C25: after Diff the three maps are pairwise disjoint, and an object of the
\* snapshot whose states row is an insert with the same timestamp is in none
C25_DiffMapsDisjoint ==
    call.f = "Diff" =>
      /\ DOMAIN call.m.createMap \cap DOMAIN call.m.updateMap = {}
      /\ DOMAIN call.m.createMap \cap DOMAIN call.m.deleteMap = {}
      /\ DOMAIN call.m.updateMap \cap DOMAIN call.m.deleteMap = {}
      /\ ~call.err =>
            \A k \in Range(S6Keys) :
              DiffIdentical(k) =>
                k \notin DOMAIN call.m.createMap \cup DOMAIN call.m.updateMap
                            \cup DOMAIN call.m.deleteMap

C25_Witness ==
    /\ DiffReturned
    /\ \E k \in Range(DiffKeys) : DiffIdentical(k)
    /\ DOMAIN call.m.updateMap # {}
    /\ DOMAIN call.m.deleteMap # {}

\* C26: after Diff an object is in the deleteMap if and only if its states row
\* is not a delete, it is absent from the snapshot and the row is older than
\* the latest timestamp of the snapshot; scenario S6 gives {B}, {} and {C}
C26_DeleteMapExactlyMissingLiveObjects ==
    DiffReturned =>
      /\ \A k \in Range(S6Keys) :
            k \in DOMAIN call.m.deleteMap <=>
              /\ k \in DOMAIN call.states
              /\ call.states[k].Event # "delete"
              /\ k \notin DOMAIN call.snapshot
              /\ call.states[k].Timestamp < DumpTime(call.snapshot)
      /\ (call.snapshot = S6Snapshot /\ call.states = S6States) =>
            /\ DOMAIN call.m.createMap = {"B"}
            /\ DOMAIN call.m.updateMap = {}
            /\ DOMAIN call.m.deleteMap = {"C"}

\* C27: an object of the snapshot whose states row is a delete leaves the
\* createMap only when the snapshot is older than the row, and is never put
\* in the updateMap or the deleteMap
C27_DeletedObjectOfSnapshot ==
    DiffReturned =>
      \A k \in DOMAIN call.snapshot \cap DOMAIN call.states :
        call.states[k].Event = "delete" =>
          /\ k \notin DOMAIN call.m.createMap <=>
                call.snapshot[k] < call.states[k].Timestamp
          /\ k \notin DOMAIN call.m.updateMap
          /\ k \notin DOMAIN call.m.deleteMap

\* the hexadecimal string in lowercase
LowerHex(s) ==
    [i \in DOMAIN s |->
       IF s[i] \in Range(UpperHexDigits) THEN HexDigits[HexDigitVal(s[i]) + 1] ELSE s[i]]

IsLowerHex24(s) == Len(s) = 24 /\ \A i \in DOMAIN s : s[i] \in Range(HexDigits)

IsHex24(s) ==
    Len(s) = 24 /\ \A i \in DOMAIN s : s[i] \in Range(HexDigits) \cup Range(UpperHexDigits)

\* C28 as stated: a string of at most 13 characters that parses as an integer
\* gives a replication id of that value, else 24 lowercase hex characters give
\* an operation id whose String() is the string, else NewLastId fails
C28_ClassifiesLowercaseHexOnly ==
    call.f = "NewLastId" =>
      IF Len(call.s) <= 13 /\ ParseIntOk(call.s)
      THEN ~call.r.err /\ call.r.id = ReplicationLastId(ParseInt(call.s), FALSE)
      ELSE IF IsLowerHex24(call.s)
      THEN ~call.r.err /\ call.r.id.kind = "op" /\ IdString(call.r.id) = call.s
      ELSE call.r.err

\* C28: a string of at most 13 characters that parses as an integer gives a
\* replication id of that value, else 24 hex characters in either case give an
\* operation id whose String() is the string in lowercase, else NewLastId fails
C28_ClassifiesEveryString ==
    call.f = "NewLastId" =>
      IF Len(call.s) <= 13 /\ ParseIntOk(call.s)
      THEN ~call.r.err /\ call.r.id = ReplicationLastId(ParseInt(call.s), FALSE)
      ELSE IF IsHex24(call.s)
      THEN ~call.r.err /\ call.r.id.kind = "op"
           /\ IdString(call.r.id) = LowerHex(call.s)
      ELSE call.r.err

C28_Witness ==
    /\ call.f = "NewLastId"
    /\ call.s = Hex24("A", "C")
    /\ ~call.r.err
    /\ IdString(call.r.id) = Hex24("a", "c")

\* C29: the fallback of an operation id is a replication id of the time of the
\* operation id in milliseconds, a multiple of 1000, in fallback mode; the
\* replication ids NewLastId builds are not in fallback mode
C29_FallbackIsTimeInFallbackMode ==
    /\ call.f = "Fallback" =>
         /\ call.r.kind = "repl"
         /\ call.r.int64 = IdTime(call.o)
         /\ call.r.int64 = call.o.ObjectId.sec * 1000
         /\ call.r.int64 % 1000 = 0
         /\ call.r.fallbackMode
    /\ (call.f = "NewLastId" /\ ~call.r.err /\ call.r.id.kind = "repl") =>
         ~call.r.id.fallbackMode

C29_Witness ==
    /\ call.f = "Fallback"
    /\ call.o = NewLastId(Hex24("A", "c")).id
    /\ call.r = ReplicationLastId(10000, TRUE)

\* the number of operations the appender has taken from the queue, when each is
\* inserted once
Taken == Inserted + (IF app.pc = "inserting" THEN 1 ELSE 0)

TakenFromQueue == Len(accepted) - Len(queue)

\* the documents of the log are operations the appender has taken, in the order of
\* the queue: each is the operation of the document before it or the next one
\* taken, and the last document is the operation taken last, or the one before
\* while the insert of the last is not done
LogInQueueOrder ==
    \E f \in [DOMAIN ops -> 1..TakenFromQueue] :
      /\ \A i \in DOMAIN ops : Queued(ops[i]) = accepted[f[i]]
      /\ \A i \in DOMAIN ops : i > 1 => f[i] \in {f[i - 1], f[i - 1] + 1}
      /\ ops # <<>> =>
            f[Len(ops)] \in (IF app.pc = "inserting"
                             THEN {TakenFromQueue - 1, TakenFromQueue}
                             ELSE {TakenFromQueue})
      /\ ops = <<>> => TakenFromQueue = (IF app.pc = "inserting" THEN 1 ELSE 0)

Satisfies(f, obd) ==
    /\ f.Types # <<>> => obd.Type \in Range(f.Types)
    /\ f.Parents # <<>> =>
          \E i \in DOMAIN obd.Parents : obd.Parents[i] \in Range(f.Parents)

\* C31: every operation and every states row Tail has emitted, in LIVE and in
\* REPLICATE, satisfies the filter of the tail; "reset" and "live" are not
\* constrained
C31_EmittedEventsSatisfyFilter ==
    \A i \in DOMAIN out :
      out[i].kind \in {"op", "state"} => Satisfies(filter, out[i].Data)

C31_Witness ==
    /\ filter = [Types |-> <<"a", "c">>, Parents |-> <<"p/2", "p/1">>]
    /\ \E i \in DOMAIN ops : ops[i].Data.Type = "b"
    /\ <<"b", "/", "1">> \in DOMAIN states
    /\ \E i \in DOMAIN out : out[i].kind = "state" /\ out[i].Data.Type = "a"
    /\ \E i \in DOMAIN out : out[i].kind = "event" /\ out[i].Event = "live"
    /\ \E i \in DOMAIN out : out[i].kind = "op" /\ out[i].Data.Type = "a"

\* C32: in a reconnect loop the delay before the first attempt is 1 s, the delay
\* before each later attempt is twice the one before or 30 s when that is less,
\* and no delay exceeds 30 s
C32_BackoffDoublesUpTo30s ==
    call.f = "readStream" =>
      \A i \in DOMAIN call.delays :
        /\ call.delays[i] <= 30
        /\ i = 1 => call.delays[i] = 1
        /\ i > 1 => \/ call.delays[i] = 2 * call.delays[i - 1]
                    \/ call.delays[i] = 30

\* C33: once connect failed with ErrAccessDenied or ErrResumeFailed and the error
\* was sent on errs, the reconnect loop makes no other connection attempt
C33_NoRetryAfterFatalError ==
    [][(/\ call.f = "readStream"
        /\ call.pc = "sleep"
        /\ call.err \in {"ErrAccessDenied", "ErrResumeFailed"})
       => call'.delays = call.delays]_vars

\* the lines of the first message of a stream: those before its first empty
\* line, or all of them when the stream ends before one
Message(stream) ==
    LET S == {i \in DOMAIN stream : stream[i] = BlankLine}
    IN  IF S = {} THEN stream
        ELSE SubSeq(stream, 1, (CHOOSE i \in S : \A j \in S : i <= j) - 1)

Closed(stream) == \E i \in DOMAIN stream : stream[i] = BlankLine

HasEvent(msg) ==
    \E i \in DOMAIN msg :
      /\ msg[i] # <<>> /\ msg[i][1] # ":"
      /\ LineField(msg[i]) = <<"e", "v", "e", "n", "t">>
      /\ LineValue(msg[i]) # <<>>

HasBadData(msg) ==
    \E i \in DOMAIN msg :
      /\ msg[i] # <<>> /\ msg[i][1] # ":"
      /\ LineField(msg[i]) = <<"d", "a", "t", "a">>
      /\ ~ValidJSON(LineValue(msg[i]))

\* C34: Next returns nil only for a message closed by an empty line that has an
\* event field and no data field that is not JSON; a closed message without an
\* event field gives ErrIncompleteEvent, one with such a data field gives
\* ErrInvalidEvent, and a stream that ends before the empty line gives
\* ErrConnectionClosed
C34_NilOnlyForCompleteEvent ==
    call.f = "Next" =>
      LET msg == Message(call.stream)
      IN  /\ ~Closed(call.stream) => call.err = "ErrConnectionClosed"
          /\ Closed(call.stream) /\ HasBadData(msg) => call.err = "ErrInvalidEvent"
          /\ Closed(call.stream) /\ ~HasBadData(msg) /\ ~HasEvent(msg)
               => call.err = "ErrIncompleteEvent"
          /\ call.err = "" => Closed(call.stream) /\ HasEvent(msg) /\ ~HasBadData(msg)

\* C35: a retry of a replication in fallback mode that has emitted a row leaves
\* the last id a replication id in fallback mode, so that the retried query has
\* no clause on the event
C35_RetryKeepsFallbackMode ==
    [][(/\ pc = "retry"
        /\ lastId.kind = "repl"
        /\ lastId.fallbackMode
        /\ lastEv # NoEvent)
       => (lastId'.kind = "repl" /\ lastId'.fallbackMode)]_vars

\* a consumer that had received the object k resumes with a replication id: the
\* log holds an insert of k not later than the id and a later delete of k, whose
\* states row is in the window of the id and passes the filter
ResumedAfterDelete(k) ==
    /\ pc = "loop" /\ pass = 0 /\ out = <<>> /\ ~done
    /\ resp.status = 200 /\ resp.echo
    /\ lastId.kind = "repl" /\ ~lastId.fallbackMode
    /\ NoAppend
    /\ k \in DOMAIN states
    /\ states[k].Event = "delete"
    /\ states[k].Timestamp >= lastId.int64
    /\ FilterApply(filter, states[k].Data)
    /\ \E i, j \in DOMAIN ops :
         /\ i < j
         /\ ops[i].Event = "insert" /\ GetId(ops[i].Data) = k
         /\ ops[i].Data.Timestamp <= lastId.int64
         /\ ops[j].Event = "delete" /\ GetId(ops[j].Data) = k

\* the deletion of k has been sent, as a row or as an operation
DeleteSent(k) ==
    \E i \in DOMAIN out :
      /\ out[i].kind \in {"op", "state"}
      /\ out[i].Event = "delete"
      /\ GetId(out[i].Data) = k

\* C36: a tail resumed with a replication id eventually sends the deletion of
\* each object deleted since that id, unless the connection ends first
C36_ResumeSendsDeletes ==
    \A k \in {GetId(ob) : ob \in Objects} :
      ResumedAfterDelete(k)
        ~> (DeleteSent(k) \/ done \/ TailReturned \/ pc = "closed" \/ Len(out) >= MaxOut)

\* C37: the page loop ends after finitely many pages: each page that follows a
\* full page starts at a later timestamp than the one before, so that a page is
\* not read again for ever while the store does not change
C37_PagesAdvance ==
    [][(pc = "iter" /\ pc' = "page" /\ query.hasGte) => query'.gte > query.gte]_vars

\* C38: when no call of Append is between its two writes, the states row of each
\* key holds the event and the data of the last operation of the log on that key
C38_StateReflectsLastOperation ==
    NoAppend =>
      \A k \in DOMAIN states :
        LET S == {i \in DOMAIN ops : GetId(ops[i].Data) = k}
        IN  S # {} =>
              LET last == CHOOSE i \in S : \A j \in S : j <= i
              IN  /\ states[k].Event = ObjectState(ops[last], 0).Event
                  /\ states[k].Data = ops[last].Data

\* C39: a second Diff with the same snapshot, after the operations of the three
\* maps of the first one have been appended, leaves the three maps empty
C39_DiffConverges ==
    call.f = "DiffAgain" =>
      /\ DOMAIN call.m.createMap = {}
      /\ DOMAIN call.m.updateMap = {}
      /\ DOMAIN call.m.deleteMap = {}

\* C40: once done is signalled, with a state file configured and no failed
\* write, a last id that the ack of an event has set is the content of the state
\* file
C40_StateFileCurrentAtDone ==
    (/\ chans.done
     /\ consumer.StateFile
     /\ appl.ErrWritingState = 0
     /\ consumer.lastId # <<>>
     /\ \E i \in appl.acked : appl.got[i].ID = consumer.lastId)
    => appl.file = consumer.lastId

=============================================================================
